---- MODULE Spec2Model ----
(***************************************************************************)
(* The plashboard runtime (plugin/src/runtime.ts): the scheduler tick, the *)
(* run pipeline executeAndPersist/executeTemplateRun with its retry and    *)
(* repair loops, runNow and templateActivate, as coroutines of one Node    *)
(* process.  Every `await` of the source is a point where the coroutines   *)
(* interleave; the code between two awaits is one atomic action.           *)
(***************************************************************************)
EXTENDS Integers, Sequences, FiniteSets, TLC

\* ------------------------------------------------------------------ bounds
\* Number of executeAndPersist invocations that can be pending at once.
NumProcs == 2
\* The clock runs from minute 1 to minute MaxTime.
MaxTime == 2
\* Number of tickScheduler invocations that can be pending at once.
NumTicks == 2
\* Number of template operations that can be pending at once.
NumOps == 2

\* ------------------------------------------------------- values and config
NULL == "null"
TemplateIds == {"a", "b"}

\* every_minutes * 60_000 (runtime.ts:386): the clock counts milliseconds.
MsPerMinute == 60000

\* config.default_retry_count as the tests configure it (runtime.test.ts:62).
DefaultRetryCount == 0
\* The fallback of template.run.repair_attempts (runtime.ts:445).
DefaultRepairAttempts == 1

\* config.display_profile, and a profile that displayProfileSet has stored.
ConfigProfile == "configured"
StoredProfile == "stored"

\* Failure messages, by the step that raised them.
MsgInProgress == "template run already in progress"
MsgShape == "shape"
MsgParse == "parse"
MsgMerge == "merge"
MsgLayout == "layout"
MsgIo == "io"
MsgExists == "template already exists"
MsgNotFound == "template not found"
MsgSourceNotFound == "source template not found"
MsgInvalidId == "new_template_id is invalid"
MsgTemplateShape == "template shape"
MsgMismatch == "template id mismatch"

\* What one call of fillRunner.run produces: a response of one of four kinds,
\* or a thrown error (unparseable output).
FillResults == {"valid", "shape_invalid", "merge_invalid", "layout_invalid", "parse_error"}

VARIABLES
    templates,         \* TemplateStore: id -> template, for the stored ids
    active,            \* state.active_template_id
    template_runs,     \* state.template_runs: id -> RunState, for the ids present
    runningTemplates,  \* the in-flight set
    tickInProgress,    \* the tick lock
    tick,              \* the tickScheduler invocations, slot -> position
    max_parallel_runs, \* config.max_parallel_runs
    now,               \* Date.now()
    run,               \* the executeAndPersist invocations, slot -> record
    runStore,          \* the artifacts RunStore.write has written, of the
                       \* invocations whose caller has not resumed yet
    live,              \* the live dashboard file: whose payload it holds
    env,               \* what the surroundings can do: the results the fill
                       \* provider gives, and whether file writes can fail
    ops,               \* the user operations that are pending, slot -> record
    schedulerTimer,    \* whether the interval timer of start() is set
    files,             \* state.json, and a file being written by atomicWriteJson
    docs,              \* the documents in memory that merge works on
    display_profile    \* state.display_profile

vars == <<templates, active, template_runs, runningTemplates, tickInProgress,
          tick, max_parallel_runs, now, run, runStore, live, env, ops,
          schedulerTimer, files, docs, display_profile>>

Procs == 1..NumProcs
TickIds == 1..NumTicks
OpIds == 1..NumOps

\* ------------------------------------------------------------ pure helpers
Max(a, b) == IF a >= b THEN a ELSE b

\* An optional number is the empty set (undefined) or a singleton.
Some(n) == {n}
None == {}
Get(opt) == CHOOSE n \in opt : TRUE

EmptyRunState ==
    [last_attempt_at |-> None, last_success_at |-> None,
     last_status |-> NULL, last_error |-> NULL]

\* state.template_runs[id] || {}
RunStateOf(tr, id) == IF id \in DOMAIN tr THEN tr[id] ELSE EmptyRunState

\* state.template_runs[id] = value
SetRunState(tr, id, value) ==
    [x \in (DOMAIN tr) \cup {id} |-> IF x = id THEN value ELSE tr[x]]

\* What Date.parse gives for a stored timestamp that is no date (NaN).
InvalidDate == -1

\* The later of last_attempt_at and last_success_at among those that parse,
\* null when none does.
resolveLastAttemptMs(tr, id) ==
    IF id \notin DOMAIN tr THEN None
    ELSE LET candidates == {m \in tr[id].last_attempt_at \cup tr[id].last_success_at :
                               m # InvalidDate}
         IN IF candidates = {} THEN None
            ELSE Some(CHOOSE m \in candidates : \A c \in candidates : c <= m)

\* Math.max(0, template.run?.retry_count ?? config.default_retry_count)
RetryCountOf(template) ==
    Max(0, IF template.retry_count = None THEN DefaultRetryCount
           ELSE Get(template.retry_count))

\* Math.max(0, template.run?.repair_attempts ?? 1)
RepairAttemptsOf(template) ==
    Max(0, IF template.repair_attempts = None THEN DefaultRepairAttempts
           ELSE Get(template.repair_attempts))

\* The template ids in localeCompare order.
IdOrder == <<"a", "b", "c", "default">>

\* TemplateStore.list(): the stored templates sorted by id ascending.
SortedIds(store) == SelectSeq(IdOrder, LAMBDA id : id \in DOMAIN store)

NoArtifact == [status |-> NULL]

\* The template and the listing of an invocation that holds none.
NoTemplate ==
    [enabled |-> FALSE, every_minutes |-> 0, retry_count |-> None, repair_attempts |-> None]
NoListing == [id \in {} |-> NoTemplate]

\* A template operation slot that holds no call.
IdleOp ==
    [pc |-> "idle", kind |-> NULL, id |-> NULL, source |-> NULL, activate |-> FALSE,
     valid |-> FALSE, template |-> NoTemplate, slot |-> 0, listed |-> NoListing,
     ok |-> FALSE, error |-> NULL]

\* ------------------------------------------------------------ JSON values
JNull == [t |-> "null"]
JBool(b) == [t |-> "bool", b |-> b]
JNum(n) == [t |-> "num", n |-> n]
JStr(s) == [t |-> "str", s |-> s]
JArr(items) == [t |-> "arr", items |-> items]
JObj(members) == [t |-> "obj", members |-> members]
Member(k, v) == [k |-> k, v |-> v]

\* The text of a string: one element per character.
DigitChars == <<"0", "1", "2", "3", "4", "5", "6", "7", "8", "9">>
Whitespace == {" ", "\n"}

RECURSIVE NatChars(_)
NatChars(n) == IF n < 10 THEN <<DigitChars[n + 1]>>
               ELSE NatChars(n \div 10) \o <<DigitChars[(n % 10) + 1]>>
NumChars(n) == IF n < 0 THEN <<"-">> \o NatChars(0 - n) ELSE NatChars(n)

\* JSON.stringify of a string: quotes, with the quote, the backslash and the
\* newline escaped.
RECURSIVE Escaped(_)
Escaped(s) ==
    IF s = <<>> THEN <<>>
    ELSE (CASE Head(s) = "\"" -> <<"\\", "\"">>
            [] Head(s) = "\\" -> <<"\\", "\\">>
            [] Head(s) = "\n" -> <<"\\", "n">>
            [] OTHER -> <<Head(s)>>) \o Escaped(Tail(s))
Quote(s) == <<"\"">> \o Escaped(s) \o <<"\"">>

RECURSIVE Indent(_)
Indent(depth) == IF depth = 0 THEN <<>> ELSE <<" ", " ">> \o Indent(depth - 1)

\* JSON.stringify(value, null, 2) below the top level `depth`.
RECURSIVE Stringify(_, _)
RECURSIVE StringifyItems(_, _)
RECURSIVE StringifyMembers(_, _)
StringifyItems(items, depth) ==
    Indent(depth) \o Stringify(Head(items), depth)
        \o (IF Tail(items) = <<>> THEN <<"\n">>
            ELSE <<",", "\n">> \o StringifyItems(Tail(items), depth))
StringifyMembers(members, depth) ==
    Indent(depth) \o Quote(Head(members).k) \o <<":", " ">>
        \o Stringify(Head(members).v, depth)
        \o (IF Tail(members) = <<>> THEN <<"\n">>
            ELSE <<",", "\n">> \o StringifyMembers(Tail(members), depth))
Stringify(v, depth) ==
    CASE v.t = "null" -> <<"n", "u", "l", "l">>
      [] v.t = "bool" -> IF v.b THEN <<"t", "r", "u", "e">>
                                ELSE <<"f", "a", "l", "s", "e">>
      [] v.t = "num" -> NumChars(v.n)
      [] v.t = "str" -> Quote(v.s)
      [] v.t = "arr" -> IF v.items = <<>> THEN <<"[", "]">>
                        ELSE <<"[", "\n">> \o StringifyItems(v.items, depth + 1)
                                 \o Indent(depth) \o <<"]">>
      [] v.t = "obj" -> IF v.members = <<>> THEN <<"{", "}">>
                        ELSE <<"{", "\n">> \o StringifyMembers(v.members, depth + 1)
                                 \o Indent(depth) \o <<"}">>

\* ------------------------------------------------------------- JSON.parse
\* A parse step answers the value read and the text that follows it.
ParseFailed == [ok |-> FALSE, v |-> JNull, rest |-> <<>>]
Parsed(v, rest) == [ok |-> TRUE, v |-> v, rest |-> rest]

RECURSIVE SkipWs(_)
SkipWs(s) == IF s # <<>> /\ Head(s) \in Whitespace THEN SkipWs(Tail(s)) ELSE s

StartsWith(s, word) == Len(s) >= Len(word) /\ SubSeq(s, 1, Len(word)) = word
Drop(s, n) == SubSeq(s, n + 1, Len(s))
DigitValue(c) == CHOOSE d \in 0..9 : DigitChars[d + 1] = c
IsDigit(c) == \E d \in 1..10 : DigitChars[d] = c

RECURSIVE ParseDigits(_, _)
ParseDigits(s, acc) ==
    IF s # <<>> /\ IsDigit(Head(s))
    THEN ParseDigits(Tail(s), acc * 10 + DigitValue(Head(s)))
    ELSE Parsed(JNum(acc), s)
ParseNumber(s) ==
    IF Head(s) = "-"
    THEN IF Tail(s) # <<>> /\ IsDigit(Head(Tail(s)))
         THEN [ParseDigits(Tail(s), 0) EXCEPT !.v = JNum(0 - @.n)]
         ELSE ParseFailed
    ELSE ParseDigits(s, 0)

\* The characters of a string up to its closing quote; s follows the opening
\* quote.
RECURSIVE ParseChars(_, _)
ParseChars(s, acc) ==
    IF s = <<>> THEN ParseFailed
    ELSE IF Head(s) = "\"" THEN Parsed(JStr(acc), Tail(s))
    ELSE IF Head(s) = "\n" THEN ParseFailed
    ELSE IF Head(s) = "\\"
         THEN IF Tail(s) = <<>> THEN ParseFailed
              ELSE IF Head(Tail(s)) \in {"\"", "\\"}
                   THEN ParseChars(Tail(Tail(s)), Append(acc, Head(Tail(s))))
              ELSE IF Head(Tail(s)) = "n"
                   THEN ParseChars(Tail(Tail(s)), Append(acc, "\n"))
              ELSE ParseFailed
    ELSE ParseChars(Tail(s), Append(acc, Head(s)))

RECURSIVE ParseValue(_)
RECURSIVE ParseItems(_, _)
RECURSIVE ParseMembers(_, _)
\* s follows "[" or a comma; acc holds the items read.
ParseItems(s, acc) ==
    LET item == ParseValue(s)
        after == SkipWs(item.rest)
    IN  IF ~item.ok \/ after = <<>> THEN ParseFailed
        ELSE IF Head(after) = "," THEN ParseItems(Tail(after), Append(acc, item.v))
        ELSE IF Head(after) = "]" THEN Parsed(JArr(Append(acc, item.v)), Tail(after))
        ELSE ParseFailed
\* s follows "{" or a comma; acc holds the members read.
ParseMembers(s, acc) ==
    LET at == SkipWs(s)
        key == IF at # <<>> /\ Head(at) = "\"" THEN ParseChars(Tail(at), <<>>)
               ELSE ParseFailed
        colon == SkipWs(key.rest)
        val == IF key.ok /\ colon # <<>> /\ Head(colon) = ":"
               THEN ParseValue(Tail(colon)) ELSE ParseFailed
        after == SkipWs(val.rest)
        read == Append(acc, Member(key.v.s, val.v))
    IN  IF ~val.ok \/ after = <<>> THEN ParseFailed
        ELSE IF Head(after) = "," THEN ParseMembers(Tail(after), read)
        ELSE IF Head(after) = "}" THEN Parsed(JObj(read), Tail(after))
        ELSE ParseFailed
ParseValue(text) ==
    LET s == SkipWs(text)
    IN  IF s = <<>> THEN ParseFailed
        ELSE IF StartsWith(s, <<"n", "u", "l", "l">>) THEN Parsed(JNull, Drop(s, 4))
        ELSE IF StartsWith(s, <<"t", "r", "u", "e">>) THEN Parsed(JBool(TRUE), Drop(s, 4))
        ELSE IF StartsWith(s, <<"f", "a", "l", "s", "e">>)
             THEN Parsed(JBool(FALSE), Drop(s, 5))
        ELSE IF Head(s) = "\"" THEN ParseChars(Tail(s), <<>>)
        ELSE IF Head(s) = "-" \/ IsDigit(Head(s)) THEN ParseNumber(s)
        ELSE IF Head(s) = "["
             THEN IF SkipWs(Tail(s)) # <<>> /\ Head(SkipWs(Tail(s))) = "]"
                  THEN Parsed(JArr(<<>>), Tail(SkipWs(Tail(s))))
                  ELSE ParseItems(Tail(s), <<>>)
        ELSE IF Head(s) = "{"
             THEN IF SkipWs(Tail(s)) # <<>> /\ Head(SkipWs(Tail(s))) = "}"
                  THEN Parsed(JObj(<<>>), Tail(SkipWs(Tail(s))))
                  ELSE ParseMembers(Tail(s), <<>>)
        ELSE ParseFailed

\* JSON.parse(text): one value and nothing but white space after it.
JsonParse(text) ==
    LET p == ParseValue(text)
    IN  IF p.ok /\ SkipWs(p.rest) = <<>> THEN Parsed(p.v, <<>>) ELSE ParseFailed

\* deepClone (utils): JSON.parse(JSON.stringify(value)).
DeepClone(v) == JsonParse(Stringify(v, 0)).v

\* What readJsonFile answers for a file: null when the file is absent, the
\* parsed value, or the parse error thrown.
ReadJson(content) ==
    IF content = None THEN [found |-> FALSE, ok |-> TRUE, v |-> JNull]
    ELSE [found |-> TRUE, ok |-> JsonParse(Get(content)).ok,
          v |-> JsonParse(Get(content)).v]
\* What it answers for a file that holds the whole text of v.
ReadsAs(v) == [found |-> TRUE, ok |-> TRUE, v |-> v]

\* No atomicWriteJson call is pending.
IdleWrite == [pc |-> "idle", v |-> JNull, text |-> <<>>, prev |-> None]

\* The files of a specification that does not follow them: state.json is
\* left out, no file is being written.
NoFiles ==
    [state |-> None, path |-> None, tmp |-> None, write |-> IdleWrite, read |-> None]

\* state.json holding what saveState has written last, in a specification
\* that follows it.
StateFile(current, runs) ==
    [NoFiles EXCEPT !.state = Some([active_template_id |-> current, template_runs |-> runs])]

\* stateStore.save(state) has answered: state.json holds the state as it is
\* in the cache.
SaveState(f, current, runs) ==
    IF f.state = None THEN f
    ELSE [f EXCEPT !.state = Some([active_template_id |-> current, template_runs |-> runs])]

\* No document is in memory.
NoDocs == [heap |-> <<>>]

\* A tickScheduler invocation that has not been made.
IdleTick == [pc |-> "idle", listed |-> NoListing]

\* if (this.tickInProgress) return; at the head of tickScheduler.
TickBusyNever(inProgress) == FALSE
TickBusy(inProgress) == inProgress

\* The invocation in slot k ends (its finally has run): the model stops
\* tracking it, the invocations that returned at once and those that ended
\* by an error.
TickEnded(t, k) ==
    [j \in TickIds |-> IF j = k \/ t[j].pc \in {"returned", "raised"} THEN IdleTick
                       ELSE t[j]]

\* The invocation in slot k ends by an error (its finally has run): its
\* rejected promise stays until a later invocation ends.
TickRaised(t, k) == [TickEnded(t, k) EXCEPT ![k].pc = "raised"]

FreeRun ==
    [pc |-> "free", tmpl |-> NULL, template |-> NoTemplate, trigger |-> NULL, startedAt |-> 0,
     attempt |-> 0, repair |-> 0, attemptCount |-> 0, published |-> FALSE,
     errors |-> <<>>, hint |-> NULL, fillResult |-> NULL, fills |-> 0,
     artifact |-> NoArtifact]

\* An invocation whose executeTemplateRun has ended, by a return ("persist",
\* then "done", or "writeFailed" when RunStore.write raised) or by an error
\* ("threw"): its locals are gone.
Ended(rec, pc, artifact) ==
    [FreeRun EXCEPT !.pc = pc, !.tmpl = rec.tmpl, !.trigger = rec.trigger,
                    !.startedAt = rec.startedAt, !.artifact = artifact]

FreeSlots(r) == {p \in Procs : r[p].pc = "free"}
LowestFree(r) == CHOOSE p \in FreeSlots(r) : \A q \in FreeSlots(r) : p <= q

\* The due test of the tick (385-387); !lastAttempt holds of null and of 0.
DueAlways(tr, template, id, t) == TRUE

Due(tr, template, id, t) ==
    LET lastAttempt == resolveLastAttemptMs(tr, id)
        intervalMs == template.every_minutes * MsPerMinute
    IN \/ lastAttempt = None
       \/ Get(lastAttempt) = 0
       \/ t >= Get(lastAttempt) + intervalMs

\* this.runningTemplates.has(template.id) at the head of executeTemplateRun.
InFlightNever(id, running) == FALSE
InFlight(id, running) == id \in running

\* this.runningTemplates.size >= this.config.max_parallel_runs in the tick.
AtCapacityStrict(running, maxParallel) == Cardinality(running) > maxParallel
AtCapacity(running, maxParallel) == Cardinality(running) >= maxParallel

\* latestState.active_template_id === template.id before publish.
ShouldPublishAny(latestActive, id) == latestActive # NULL
ShouldPublish(latestActive, id) == latestActive = id

\* The response runNow builds from the artifact executeAndPersist returned.
RunNowResponse(artifact) ==
    [ok |-> artifact.status = "success", errors |-> artifact.errors,
     published |-> artifact.published, attempt_count |-> artifact.attempt_count]

\* The artifact of an invocation refused because its template is in flight.
RejectedArtifact(id, trigger, t) ==
    [template_id |-> id, trigger |-> trigger, status |-> "failed",
     started_at |-> t, finished_at |-> t, attempt_count |-> 0,
     published |-> FALSE, errors |-> <<MsgInProgress>>]

ArtifactFailedUnpublished(rec, status, t) ==
    [template_id |-> rec.tmpl, trigger |-> rec.trigger, status |-> status,
     started_at |-> rec.startedAt, finished_at |-> t,
     attempt_count |-> rec.attemptCount,
     published |-> rec.published /\ status = "success",
     errors |-> rec.errors]

\* The artifact executeTemplateRun returns at its end.
ArtifactSwapped(rec, status, t) ==
    [template_id |-> rec.tmpl, trigger |-> rec.trigger, status |-> status,
     started_at |-> t, finished_at |-> rec.startedAt,
     attempt_count |-> rec.attemptCount, published |-> rec.published,
     errors |-> rec.errors]

Artifact(rec, status, t) ==
    [template_id |-> rec.tmpl, trigger |-> rec.trigger, status |-> status,
     started_at |-> rec.startedAt, finished_at |-> t,
     attempt_count |-> rec.attemptCount, published |-> rec.published,
     errors |-> rec.errors]

\* executeAndPersist up to its first await: the in-flight check of
\* executeTemplateRun, and either the rejection artifact (then awaiting
\* persistRunArtifact) or the id added to the in-flight set (then awaiting
\* loadState).  st = [running, run, overflow]; the invocation takes the
\* lowest free slot.
ExecuteBeginReleases(template, id, trigger, t, st) ==
    LET p == LowestFree(st.run)
    IN IF InFlight(id, st.running)
       THEN [st EXCEPT !.running = st.running \ {id},
                       !.run[p] =
                [FreeRun EXCEPT !.pc = "persist", !.tmpl = id,
                                !.trigger = trigger, !.startedAt = t,
                                !.artifact = RejectedArtifact(id, trigger, t)]]
       ELSE [st EXCEPT !.running = st.running \cup {id},
                       !.run[p] =
                [FreeRun EXCEPT !.pc = "load", !.tmpl = id, !.template = template,
                                !.trigger = trigger, !.startedAt = t]]

ExecuteBegin(template, id, trigger, t, st) ==
    LET p == LowestFree(st.run)
    IN IF InFlight(id, st.running)
       THEN [st EXCEPT !.run[p] =
                [FreeRun EXCEPT !.pc = "persist", !.tmpl = id,
                                !.trigger = trigger, !.startedAt = t,
                                !.artifact = RejectedArtifact(id, trigger, t)]]
       ELSE [st EXCEPT !.running = st.running \cup {id},
                       !.run[p] =
                [FreeRun EXCEPT !.pc = "load", !.tmpl = id, !.template = template,
                                !.trigger = trigger, !.startedAt = t]]

\* The inner catch (runtime.ts:500-507) hands over to the outer one
\* (509-517) when no repair iteration remains.
OuterCatchOneMore(rec, message) ==
    LET pushed == [rec EXCEPT !.errors = Append(rec.errors, message)]
    IN IF rec.attempt <= RetryCountOf(rec.template)
       THEN [pushed EXCEPT !.pc = "sleep", !.fillResult = NULL]
       ELSE [pushed EXCEPT !.pc = "loadF", !.fillResult = NULL]

OuterCatch(rec, message) ==
    LET pushed == [rec EXCEPT !.errors = Append(rec.errors, message)]
    IN IF rec.attempt < RetryCountOf(rec.template)
       THEN [pushed EXCEPT !.pc = "sleep", !.fillResult = NULL]
       ELSE [pushed EXCEPT !.pc = "loadF", !.fillResult = NULL]

InnerCatchRethrows(rec, message) == OuterCatch(rec, message)

InnerCatchPushes(rec, message) ==
    IF rec.repair < RepairAttemptsOf(rec.template)
    THEN [rec EXCEPT !.hint = message, !.repair = rec.repair + 1,
                     !.errors = Append(rec.errors, message),
                     !.pc = "fill", !.fillResult = NULL]
    ELSE OuterCatch(rec, message)

InnerCatch(rec, message) ==
    IF rec.repair < RepairAttemptsOf(rec.template)
    THEN [rec EXCEPT !.hint = message, !.repair = rec.repair + 1,
                     !.pc = "fill", !.fillResult = NULL]
    ELSE OuterCatch(rec, message)

\* What follows fillRunner.run in the same turn: a thrown error and a shape
\* error leave the repair loop, a merge error is caught inside it.
AfterFill(rec, res) ==
    LET got == [rec EXCEPT !.fillResult = res]
    IN CASE res = "parse_error" -> OuterCatch(got, MsgParse)
         [] res = "shape_invalid" -> OuterCatch(got, MsgShape)
         [] res = "merge_invalid" -> InnerCatch(got, MsgMerge)
         [] OTHER -> [got EXCEPT !.pc = "validate"]
\* The state update of a success (runtime.ts:480-486) and of a terminal
\* failure (521-526), made on the cached state object.
SuccessState(tr, rec, t) ==
    SetRunState(tr, rec.tmpl,
        [RunStateOf(tr, rec.tmpl) EXCEPT !.last_attempt_at = Some(rec.startedAt),
                                         !.last_success_at = Some(t),
                                         !.last_status = "success",
                                         !.last_error = NULL])

FailedStateFirstError(tr, rec) ==
    SetRunState(tr, rec.tmpl,
        [RunStateOf(tr, rec.tmpl) EXCEPT !.last_attempt_at = Some(rec.startedAt),
                                         !.last_status = "failed",
                                         !.last_error =
                                             IF rec.errors = <<>> THEN "run failed"
                                             ELSE rec.errors[1]])

FailedState(tr, rec) ==
    SetRunState(tr, rec.tmpl,
        [RunStateOf(tr, rec.tmpl) EXCEPT !.last_attempt_at = Some(rec.startedAt),
                                         !.last_status = "failed",
                                         !.last_error =
                                             IF rec.errors = <<>> THEN "run failed"
                                             ELSE rec.errors[Len(rec.errors)]])

\* DashboardValidatorPublisher.run builds the writer's argv: --validate-only,
\* or --output with the live path.
WriterArgvAlwaysOutput(validateOnly) == {"--input", "--output"}

WriterArgv(validateOnly) ==
    IF validateOnly THEN {"--input", "--validate-only"} ELSE {"--input", "--output"}

\* The writer replaces the live file only when it is given --output.
WriterOutput(argv, payload, file) ==
    IF "--output" \in argv /\ "--validate-only" \notin argv THEN payload ELSE file

\* ------------------------------------------------------------------- Init
\* After init() and templateCreate of "a" then "b": both stored, "a" active
\* (the first created template becomes the active one), nothing run yet.
StoredTemplate(retry, repair) ==
    [enabled |-> TRUE, every_minutes |-> 1, retry_count |-> retry, repair_attempts |-> repair]

InitStateFiles(store, surroundings, runs, f) ==
    /\ env = surroundings
    /\ templates = store
    /\ active = "a"
    /\ template_runs = runs
    /\ runningTemplates = {}
    /\ tickInProgress = FALSE
    /\ tick = [k \in TickIds |-> IdleTick]
    /\ max_parallel_runs = 1
    /\ display_profile = ConfigProfile
    /\ now = MsPerMinute
    /\ run = [p \in Procs |-> FreeRun]
    /\ runStore = {}
    /\ live = "bootstrap"
    /\ ops = [o \in OpIds |-> IdleOp]
    /\ schedulerTimer = TRUE
    /\ files = f
    /\ docs = NoDocs

InitState(store, surroundings, runs) == InitStateFiles(store, surroundings, runs, NoFiles)

\* The same with no run state stored.
InitWith(store, surroundings) ==
    InitState(store, surroundings, [id \in {} |-> EmptyRunState])

\* Two templates, "a" with one retry, a provider that answers or fails, and
\* a file system that does not fail.
TwoTemplates ==
    [id \in TemplateIds |-> IF id = "a" THEN StoredTemplate(Some(1), Some(0))
                            ELSE StoredTemplate(None, Some(0))]

Init == InitWith(TwoTemplates, [fill |-> {"valid", "parse_error"}, io |-> {TRUE}])

\* The same two templates with file writes and the writer able to fail.
InitPublish == InitWith(TwoTemplates, [fill |-> {"valid", "parse_error"}, io |-> BOOLEAN])

\* One template with one retry and one repair iteration, a provider that can
\* give every kind of result, and file writes that can fail.
InitRetry ==
    InitWith([id \in {"a"} |-> StoredTemplate(Some(1), Some(1))],
             [fill |-> FillResults, io |-> BOOLEAN])

\* One template whose retry_count and repair_attempts are each 0 or 1, a
\* provider that can give every kind of result, and file writes that can fail.
InitBound ==
    \E retry, repair \in {0, 1} :
        InitWith([id \in {"a"} |-> StoredTemplate(Some(retry), Some(repair))],
                 [fill |-> FillResults, io |-> BOOLEAN])

\* What state.json can hold for a template when the runtime starts: nothing,
\* timestamps that are no dates, or the times of an earlier session (the
\* epoch, or the minute at which the clock starts).
StoredRunStates ==
    {[EmptyRunState EXCEPT !.last_attempt_at = attempt, !.last_success_at = success] :
        attempt \in {None, Some(InvalidDate), Some(0), Some(MsPerMinute)},
        success \in {None, Some(InvalidDate), Some(MsPerMinute)}}

\* The two templates, each enabled or disabled, with a stored run state of
\* "a"; the provider answers or fails and the file system does not fail.
InitDue ==
    \E enabledA, enabledB \in BOOLEAN : \E stored \in StoredRunStates :
        InitState([id \in TemplateIds |->
                      [TwoTemplates[id] EXCEPT
                          !.enabled = IF id = "a" THEN enabledA ELSE enabledB]],
                  [fill |-> {"valid", "parse_error"}, io |-> {TRUE}],
                  [id \in {"a"} |-> stored])

\* ---------------------------------------------------------------- actions
\* Time passes.
Tock ==
    /\ now < MaxTime * MsPerMinute
    /\ now' = now + MsPerMinute
    /\ UNCHANGED <<templates, active, template_runs, runningTemplates, tickInProgress,
                   tick, max_parallel_runs, display_profile, run, runStore, live, env, ops,
                   schedulerTimer, files, docs>>

\* A timestamp seen from a clock whose origin is moved one minute forward.
\* What is older than the new origin is kept at the origin: with intervals of
\* one minute it is due either way.
Rebased(t) == IF t = InvalidDate THEN t ELSE Max(0, t - MsPerMinute)

RebasedArtifact(artifact) ==
    IF artifact = NoArtifact THEN artifact
    ELSE [artifact EXCEPT !.started_at = Rebased(artifact.started_at),
                          !.finished_at = Rebased(artifact.finished_at)]

RebasedRuns(runs) ==
    [id \in DOMAIN runs |->
        [runs[id] EXCEPT
            !.last_attempt_at = {Rebased(m) : m \in runs[id].last_attempt_at},
            !.last_success_at = {Rebased(m) : m \in runs[id].last_success_at}]]

\* Time passes when the clock is at its bound: the origin of the clock moves
\* one minute forward instead, and every stored time with it, so that time
\* can pass without end in a finite model.
TockRebase ==
    /\ now = MaxTime * MsPerMinute
    /\ template_runs' = RebasedRuns(template_runs)
    /\ files' = [files EXCEPT
                    !.state = {[d EXCEPT !.template_runs = RebasedRuns(d.template_runs)] :
                                  d \in files.state}]
    /\ run' = [p \in Procs |->
                  IF run[p].pc = "free" THEN run[p]
                  ELSE [run[p] EXCEPT !.startedAt = Rebased(run[p].startedAt),
                                      !.artifact = RebasedArtifact(run[p].artifact)]]
    /\ runStore' = {[w EXCEPT !.artifact = RebasedArtifact(w.artifact)] : w \in runStore}
    /\ UNCHANGED <<templates, active, runningTemplates, tickInProgress, tick,
                   max_parallel_runs, display_profile, now, live, env, ops,
                   schedulerTimer, docs>>

\* runNow(id), from the moment templateStore.get has answered.
RunNow(id) ==
    /\ id \in DOMAIN templates
    /\ FreeSlots(run) # {}
    /\ LET st == ExecuteBegin(templates[id], id, "manual", now,
                              [running |-> runningTemplates, run |-> run,
                               overflow |-> FALSE])
       IN /\ runningTemplates' = st.running
          /\ run' = st.run
    /\ UNCHANGED <<templates, active, template_runs, tickInProgress, tick,
                   max_parallel_runs, display_profile, now, runStore, live, env, ops,
                   schedulerTimer, files, docs>>

\* templateActivate(id) for a stored template.
TemplateActivateAndRun(id) ==
    /\ id \in DOMAIN templates
    /\ active' = id
    /\ files' = SaveState(files, id, template_runs)
    /\ FreeSlots(run) # {}
    /\ LET st == ExecuteBegin(templates[id], id, "manual", now,
                              [running |-> runningTemplates, run |-> run,
                               overflow |-> FALSE])
       IN /\ runningTemplates' = st.running
          /\ run' = st.run
    /\ UNCHANGED <<templates, template_runs, tickInProgress, tick,
                   max_parallel_runs, display_profile, now, runStore, live, env, ops,
                   schedulerTimer, docs>>

TemplateActivate(id) ==
    /\ id \in DOMAIN templates
    /\ active' = id
    /\ files' = SaveState(files, id, template_runs)
    /\ UNCHANGED <<templates, template_runs, runningTemplates, tickInProgress, tick,
                   max_parallel_runs, display_profile, now, run, runStore, live, env, ops,
                   schedulerTimer, docs>>

\* tickScheduler is invoked (by the timer or by start()), in the lowest unused
\* slot: it returns at once when a tick is in progress, otherwise it takes the
\* lock and awaits templateStore.list().
TickInvoke ==
    /\ \E k \in TickIds :
          /\ tick[k].pc = "idle"
          /\ \A j \in TickIds : j < k => tick[j].pc # "idle"
          /\ IF TickBusy(tickInProgress)
             THEN /\ tick' = [tick EXCEPT ![k].pc = "returned"]
                  /\ UNCHANGED tickInProgress
             ELSE /\ tick' = [tick EXCEPT ![k].pc = "list"]
                  /\ tickInProgress' = TRUE
    /\ UNCHANGED <<templates, active, template_runs, runningTemplates,
                   max_parallel_runs, display_profile, now, run, runStore, live, env,
                   files, docs>>

TickStartTimerless ==
    /\ TickInvoke
    /\ UNCHANGED <<ops, schedulerTimer>>

\* The interval timer fires: it exists only between start() and stop().
TickStart ==
    /\ schedulerTimer
    /\ TickInvoke
    /\ UNCHANGED <<ops, schedulerTimer>>

\* stop(): the timer is cleared; the function has no await.
Stop ==
    /\ schedulerTimer
    /\ schedulerTimer' = FALSE
    /\ UNCHANGED <<templates, active, template_runs, runningTemplates, tickInProgress,
                   tick, max_parallel_runs, display_profile, now, run, runStore, live, env, ops,
                   files, docs>>

\* start() is called: it awaits init() first.
StartCall(o) ==
    /\ ops[o].pc = "idle"
    /\ ops' = [ops EXCEPT ![o] = [IdleOp EXCEPT !.pc = "init", !.kind = "start"]]
    /\ UNCHANGED <<templates, active, template_runs, runningTemplates, tickInProgress,
                   tick, max_parallel_runs, display_profile, now, run, runStore, live, env,
                   schedulerTimer, files, docs>>

\* init() has answered: start() returns when a timer exists, else it sets the
\* timer and invokes one tick itself.
StartResume(o) ==
    /\ ops[o].kind = "start"
    /\ ops[o].pc = "init"
    /\ ops' = [ops EXCEPT ![o].pc = "done", ![o].ok = TRUE]
    /\ IF schedulerTimer
       THEN UNCHANGED <<templates, active, template_runs, runningTemplates,
                        tickInProgress, tick, max_parallel_runs, display_profile, now, run, runStore,
                        live, env, schedulerTimer, files, docs>>
       ELSE /\ schedulerTimer' = TRUE
            /\ TickInvoke

\* templateStore.list() answers, or raises and the lock stays taken.
TickListKeepsLock(k) ==
    /\ tick[k].pc = "list"
    /\ \E ok \in env.io :
          IF ok THEN /\ tick' = [tick EXCEPT ![k] = [pc |-> "state", listed |-> templates]]
                     /\ UNCHANGED tickInProgress
          ELSE /\ tick' = TickRaised(tick, k)
               /\ UNCHANGED tickInProgress
    /\ UNCHANGED <<templates, active, template_runs, runningTemplates,
                   max_parallel_runs, display_profile, now, run, runStore, live, env, ops,
                   schedulerTimer, files, docs>>

\* templateStore.list() answers, or raises: the finally clears the lock.
TickList(k) ==
    /\ tick[k].pc = "list"
    /\ \E ok \in env.io :
          IF ok THEN /\ tick' = [tick EXCEPT ![k] = [pc |-> "state", listed |-> templates]]
                     /\ UNCHANGED tickInProgress
          ELSE /\ tick' = TickRaised(tick, k)
               /\ tickInProgress' = FALSE
    /\ UNCHANGED <<templates, active, template_runs, runningTemplates,
                   max_parallel_runs, display_profile, now, run, runStore, live, env, ops,
                   schedulerTimer, files, docs>>

\* The for loop with the capacity test made against the in-flight set as it
\* was when the loop began.
RECURSIVE TickFromStaleCount(_, _, _, _)
TickFromStaleCount(ids, i, listed, st) ==
    IF i > Len(ids) THEN st
    ELSE LET id == ids[i]
             template == listed[id]
         IN IF ~template.enabled THEN TickFromStaleCount(ids, i + 1, listed, st)
            ELSE IF id \in st.running THEN TickFromStaleCount(ids, i + 1, listed, st)
            ELSE IF AtCapacity(runningTemplates, max_parallel_runs) THEN st
            ELSE IF ~Due(template_runs, template, id, now)
                 THEN TickFromStaleCount(ids, i + 1, listed, st)
            ELSE IF FreeSlots(st.run) = {} THEN [st EXCEPT !.overflow = TRUE]
            ELSE TickFromStaleCount(ids, i + 1, listed,
                                    ExecuteBegin(template, id, "schedule", now, st))

\* The for loop of the tick, from template i of the listing on.
RECURSIVE TickFrom(_, _, _, _)
TickFrom(ids, i, listed, st) ==
    IF i > Len(ids) THEN st
    ELSE LET id == ids[i]
             template == listed[id]
         IN IF ~template.enabled THEN TickFrom(ids, i + 1, listed, st)
            ELSE IF id \in st.running THEN TickFrom(ids, i + 1, listed, st)
            ELSE IF AtCapacity(st.running, max_parallel_runs) THEN st
            ELSE IF ~Due(template_runs, template, id, now)
                 THEN TickFrom(ids, i + 1, listed, st)
            ELSE IF FreeSlots(st.run) = {} THEN [st EXCEPT !.overflow = TRUE]
            ELSE TickFrom(ids, i + 1, listed,
                          ExecuteBegin(template, id, "schedule", now, st))

\* loadState answers; the loop runs without an await, each started run up to
\* its own first await; the finally clears the lock.
TickLoop(k) ==
    /\ tick[k].pc = "state"
    /\ LET st == TickFrom(SortedIds(tick[k].listed), 1, tick[k].listed,
                          [running |-> runningTemplates, run |-> run,
                           overflow |-> FALSE])
       IN /\ ~st.overflow
          /\ runningTemplates' = st.running
          /\ run' = st.run
    /\ tick' = TickEnded(tick, k)
    /\ tickInProgress' = FALSE
    /\ UNCHANGED <<templates, active, template_runs, max_parallel_runs, display_profile, now,
                   runStore, live, env, ops,
                   schedulerTimer, files, docs>>

\* --- the run pipeline, one action per await of executeTemplateRun ---------

\* loadState (435) answers: last_attempt_at is recorded on the cached state
\* and saveState (442) is awaited.
RunLoad(p) ==
    /\ run[p].pc = "load"
    /\ template_runs' =
          SetRunState(template_runs, run[p].tmpl,
              [RunStateOf(template_runs, run[p].tmpl) EXCEPT
                   !.last_attempt_at = Some(run[p].startedAt),
                   !.last_status = "failed",
                   !.last_error = NULL])
    /\ run' = [run EXCEPT ![p].pc = "save0"]
    /\ UNCHANGED <<templates, active, runningTemplates, tickInProgress, tick,
                   max_parallel_runs, display_profile, now, runStore, live, env, ops,
                   schedulerTimer, files, docs>>

\* saveState (442) answers or raises, and the run goes on either way.
RunSave0Unsaved(p) ==
    /\ run[p].pc = "save0"
    /\ \E ok \in env.io :
          files' = IF ok THEN SaveState(files, active, template_runs) ELSE files
    /\ run' = [run EXCEPT ![p].pc = "fill", ![p].attempt = 0,
                          ![p].attemptCount = 1, ![p].repair = 0,
                          ![p].hint = NULL]
    /\ UNCHANGED <<templates, active, template_runs, runningTemplates, tickInProgress,
                   tick, max_parallel_runs, display_profile, now, runStore, live, env, ops,
                   schedulerTimer, docs>>

\* saveState (442) answers: the retry loop is entered and the fill runner
\* called; or it raises: the finally removes the id and the error leaves
\* executeTemplateRun and executeAndPersist.
RunSave0(p) ==
    /\ run[p].pc = "save0"
    /\ \E ok \in env.io :
       /\ files' = IF ok THEN SaveState(files, active, template_runs) ELSE files
       /\ IF ok
          THEN /\ run' = [run EXCEPT ![p].pc = "fill", ![p].attempt = 0,
                                     ![p].attemptCount = 1, ![p].repair = 0,
                                     ![p].hint = NULL]
               /\ UNCHANGED runningTemplates
          ELSE /\ run' = [run EXCEPT ![p] = Ended(run[p], "threw", NoArtifact)]
               /\ runningTemplates' = runningTemplates \ {run[p].tmpl}
    /\ UNCHANGED <<templates, active, template_runs, tickInProgress, tick,
                   max_parallel_runs, display_profile, now, runStore, live, env, ops,
                   schedulerTimer, docs>>

\* fillRunner.run (453) answers or throws; shape validation and merge follow
\* in the same turn.  fills counts the calls of the fill runner the run made.
RunFill(p) ==
    /\ run[p].pc = "fill"
    /\ \E res \in env.fill :
          run' = [run EXCEPT ![p] =
                     AfterFill([run[p] EXCEPT !.fills = run[p].fills + 1], res)]
    /\ UNCHANGED <<templates, active, template_runs, runningTemplates, tickInProgress,
                   tick, max_parallel_runs, display_profile, now, runStore, live, env, ops,
                   schedulerTimer, files, docs>>

\* loadState (469), validateOnly (470) and writeRenderedSnapshot (472): the
\* writer refuses a payload over the layout budget, and writing may fail.
\* None of the three reads or writes what another coroutine writes, so they
\* are one step.
RunValidate(p) ==
    /\ run[p].pc = "validate"
    /\ live' = WriterOutput(WriterArgv(TRUE), run[p].tmpl, live)
    /\ IF run[p].fillResult = "layout_invalid"
       THEN run' = [run EXCEPT ![p] = InnerCatch(run[p], MsgLayout)]
       ELSE \E ok \in env.io :
              run' = [run EXCEPT ![p] = IF ok THEN [run[p] EXCEPT !.pc = "reload"]
                                        ELSE InnerCatch(run[p], MsgIo)]
    /\ UNCHANGED <<templates, active, template_runs, runningTemplates, tickInProgress,
                   tick, max_parallel_runs, display_profile, now, runStore, env, ops,
                   schedulerTimer, files, docs>>

\* The state re-load (474) answers and active_template_id is compared (475):
\* publish is called, or the success is recorded and saveState (487) awaited.
RunReload(p) ==
    /\ run[p].pc = "reload"
    /\ IF ShouldPublish(active, run[p].tmpl)
       THEN /\ run' = [run EXCEPT ![p].pc = "publish"]
            /\ UNCHANGED template_runs
       ELSE /\ run' = [run EXCEPT ![p].pc = "save1"]
            /\ template_runs' = SuccessState(template_runs, run[p], now)
    /\ UNCHANGED <<templates, active, runningTemplates, tickInProgress, tick,
                   max_parallel_runs, display_profile, now, runStore, live, env, ops,
                   schedulerTimer, files, docs>>

\* publish (476) answers: the writer has replaced the live file, the success
\* is recorded and saveState (487) awaited; or the writer fails.
RunPublish(p) ==
    /\ run[p].pc = "publish"
    /\ \E ok \in env.io :
          IF ok
          THEN /\ live' = WriterOutput(WriterArgv(FALSE), run[p].tmpl, live)
               /\ run' = [run EXCEPT ![p].pc = "save1", ![p].published = TRUE]
               /\ template_runs' = SuccessState(template_runs, run[p], now)
          ELSE /\ run' = [run EXCEPT ![p] = InnerCatch(run[p], MsgIo)]
               /\ UNCHANGED <<live, template_runs>>
    /\ UNCHANGED <<templates, active, runningTemplates, tickInProgress, tick,
                   max_parallel_runs, display_profile, now, runStore, env, ops,
                   schedulerTimer, files, docs>>

\* saveState (487) answers: the success artifact is returned and the finally
\* removes the id; or it raises into the inner catch.
RunSave1(p) ==
    /\ run[p].pc = "save1"
    /\ \E ok \in env.io :
       /\ files' = IF ok THEN SaveState(files, active, template_runs) ELSE files
       /\ IF ok
          THEN /\ run' = [run EXCEPT ![p] =
                              Ended(run[p], "persist", Artifact(run[p], "success", now))]
               /\ runningTemplates' = runningTemplates \ {run[p].tmpl}
          ELSE /\ run' = [run EXCEPT ![p] = InnerCatch(run[p], MsgIo)]
               /\ UNCHANGED runningTemplates
    /\ UNCHANGED <<templates, active, template_runs, tickInProgress, tick,
                   max_parallel_runs, display_profile, now, runStore, live, env, ops,
                   schedulerTimer, docs>>

\* The backoff sleep (513) ends: the next attempt starts with a fresh hint.
RunSleep(p) ==
    /\ run[p].pc = "sleep"
    /\ run' = [run EXCEPT ![p].pc = "fill", ![p].attempt = run[p].attempt + 1,
                          ![p].attemptCount = run[p].attempt + 2,
                          ![p].repair = 0, ![p].hint = NULL]
    /\ UNCHANGED <<templates, active, template_runs, runningTemplates, tickInProgress,
                   tick, max_parallel_runs, display_profile, now, runStore, live, env, ops,
                   schedulerTimer, files, docs>>

\* loadState (520) answers: the failure is recorded on the cached state and
\* saveState (527) awaited.
RunLoadF(p) ==
    /\ run[p].pc = "loadF"
    /\ template_runs' = FailedState(template_runs, run[p])
    /\ run' = [run EXCEPT ![p].pc = "saveF"]
    /\ UNCHANGED <<templates, active, runningTemplates, tickInProgress, tick,
                   max_parallel_runs, display_profile, now, runStore, live, env, ops,
                   schedulerTimer, files, docs>>

\* saveState (527) answers: the failure artifact is returned; or it raises,
\* and the error leaves executeAndPersist.  The finally removes the id.
RunSaveF(p) ==
    /\ run[p].pc = "saveF"
    /\ \E ok \in env.io :
       /\ files' = IF ok THEN SaveState(files, active, template_runs) ELSE files
       /\ run' = [run EXCEPT ![p] =
                     IF ok THEN Ended(run[p], "persist", Artifact(run[p], "failed", now))
                     ELSE Ended(run[p], "threw", NoArtifact)]
    /\ runningTemplates' = runningTemplates \ {run[p].tmpl}
    /\ UNCHANGED <<templates, active, template_runs, tickInProgress, tick,
                   max_parallel_runs, display_profile, now, runStore, live, env, ops,
                   schedulerTimer, docs>>

\* persistRunArtifact (403) answers: RunStore.write has written the artifact
\* and executeAndPersist returns it; or the write raises.
RunPersist(p) ==
    /\ run[p].pc = "persist"
    /\ \E ok \in env.io :
          IF ok
          THEN /\ runStore' = runStore \cup {[rid |-> p, artifact |-> run[p].artifact]}
               /\ run' = [run EXCEPT ![p] = Ended(run[p], "done", run[p].artifact)]
          ELSE /\ run' = [run EXCEPT ![p] = Ended(run[p], "writeFailed", run[p].artifact)]
               /\ UNCHANGED runStore
    /\ UNCHANGED <<templates, active, template_runs, runningTemplates, tickInProgress,
                   tick, max_parallel_runs, display_profile, now, live, env, ops,
                   schedulerTimer, files, docs>>

\* executeAndPersist has settled and its caller resumes (runNow builds its
\* response; the tick had not waited).  The slot is free again and the
\* model stops tracking the artifact.
RunReturn(p) ==
    /\ run[p].pc \in {"done", "threw", "writeFailed"}
    /\ \A o \in OpIds : ~(ops[o].pc = "await" /\ ops[o].slot = p)
    /\ run' = [run EXCEPT ![p] = FreeRun]
    /\ runStore' = {w \in runStore : w.rid # p}
    /\ UNCHANGED <<templates, active, template_runs, runningTemplates, tickInProgress,
                   tick, max_parallel_runs, display_profile, now, live, env, ops,
                   schedulerTimer, files, docs>>

\* One step of one pending executeAndPersist invocation.
RunStep ==
    \/ \E p \in Procs : RunLoad(p)
    \/ \E p \in Procs : RunSave0(p)
    \/ \E p \in Procs : RunFill(p)
    \/ \E p \in Procs : RunValidate(p)
    \/ \E p \in Procs : RunReload(p)
    \/ \E p \in Procs : RunPublish(p)
    \/ \E p \in Procs : RunSave1(p)
    \/ \E p \in Procs : RunSleep(p)
    \/ \E p \in Procs : RunLoadF(p)
    \/ \E p \in Procs : RunSaveF(p)
    \/ \E p \in Procs : RunPersist(p)
    \/ \E p \in Procs : RunReturn(p)

\* ------------------------------------------------- template operations
\* The characters of the ids that callers pass.
IdChars(id) ==
    CASE id = "a" -> <<"a">>
      [] id = "b" -> <<"b">>
      [] id = "c" -> <<"c">>
      [] id = "-b" -> <<"-", "b">>
      [] id = "B" -> <<"B">>
      [] OTHER -> <<>>

LowerAlnum ==
    {"a", "b", "c", "d", "e", "f", "g", "h", "i", "j", "k", "l", "m", "n", "o", "p",
     "q", "r", "s", "t", "u", "v", "w", "x", "y", "z",
     "0", "1", "2", "3", "4", "5", "6", "7", "8", "9"}

\* newTemplateId && /^[a-z0-9][a-z0-9_-]{0,63}$/.test(newTemplateId)
MatchesIdPatternAny(id) == TRUE

MatchesIdPattern(id) ==
    LET c == IdChars(id)
    IN /\ Len(c) >= 1
       /\ Len(c) <= 64
       /\ c[1] \in LowerAlnum
       /\ \A i \in 2..Len(c) : c[i] \in LowerAlnum \cup {"_", "-"}

\* The ids a caller may ask templateCopy to give the copy.
CrudIds == {"a", "b", "c"}
RequestedIds == CrudIds \cup {"-b", "B", ""}

\* templateStore.upsert and templateStore.remove, on the stored templates.
Put(store, id, template) ==
    [x \in (DOMAIN store) \cup {id} |-> IF x = id THEN template ELSE store[x]]
Remove(store, id) == [x \in (DOMAIN store) \ {id} |-> store[x]]

\* remaining.length ? remaining[0].id : null
FirstRemainingLast(store) ==
    IF SortedIds(store) = <<>> THEN NULL ELSE SortedIds(store)[Len(SortedIds(store))]

FirstRemaining(store) ==
    IF SortedIds(store) = <<>> THEN NULL ELSE Head(SortedIds(store))

\* The operation returns a response, or an error leaves it.
OpDone(op, ok, error) == [op EXCEPT !.pc = "done", !.ok = ok, !.error = error]
OpThrew(op) == [op EXCEPT !.pc = "threw", !.ok = FALSE, !.error = MsgIo]

\* if (!state.active_template_id) in templateCreate.
CreateActivatesAlways(current) == TRUE
CreateActivates(current) == current = NULL

\* if (activeTemplateId === templateId) in templateDelete.
DeleteReassignsNever(current, id) == FALSE
DeleteReassigns(current, id) == current = id

\* if (activate || !state.active_template_id) in templateCopy.
CopyActivates(activate, current) == activate \/ current = NULL

\* templateCreate(payload): coerceTemplate has passed and templateStore.get
\* is awaited.  The payload's template is enabled or not; valid says
\* whether it passes validateTemplateShape and validateFieldPointers.
TemplateCreate(o, id, enabled, valid) ==
    /\ ops[o].pc = "idle"
    /\ ops' = [ops EXCEPT ![o] =
                  [IdleOp EXCEPT !.pc = "get", !.kind = "create", !.id = id,
                                 !.valid = valid,
                                 !.template =
                                     [StoredTemplate(None, None) EXCEPT !.enabled = enabled]]]
    /\ UNCHANGED <<templates, active, template_runs, runningTemplates, tickInProgress,
                   tick, max_parallel_runs, display_profile, now, run, runStore, live, env,
                   schedulerTimer, files, docs>>

\* templateStore.get answers: a stored id is a conflict; then
\* validateTemplate runs up to its await of validateOnly.
CreateGetStoresFirst(o) ==
    /\ ops[o].pc = "get"
    /\ ops[o].kind = "create"
    /\ IF ops[o].id \in DOMAIN templates
       THEN /\ ops' = [ops EXCEPT ![o] = OpDone(ops[o], FALSE, MsgExists)]
            /\ UNCHANGED templates
       ELSE /\ templates' = Put(templates, ops[o].id, ops[o].template)
            /\ ops' = [ops EXCEPT ![o] =
                          IF ~ops[o].valid THEN OpDone(ops[o], FALSE, MsgTemplateShape)
                          ELSE [ops[o] EXCEPT !.pc = "validate"]]
    /\ UNCHANGED <<active, template_runs, runningTemplates, tickInProgress,
                   tick, max_parallel_runs, display_profile, now, run, runStore, live, env,
                   schedulerTimer, files, docs>>

CreateGet(o) ==
    /\ ops[o].pc = "get"
    /\ ops[o].kind = "create"
    /\ ops' = [ops EXCEPT ![o] =
                  IF ops[o].id \in DOMAIN templates THEN OpDone(ops[o], FALSE, MsgExists)
                  ELSE IF ~ops[o].valid THEN OpDone(ops[o], FALSE, MsgTemplateShape)
                  ELSE [ops[o] EXCEPT !.pc = "validate"]]
    /\ UNCHANGED <<templates, active, template_runs, runningTemplates, tickInProgress,
                   tick, max_parallel_runs, display_profile, now, run, runStore, live, env,
                   schedulerTimer, files, docs>>

\* validateOnly of the base dashboard answers or fails; then upsert is awaited.
CreateValidate(o) ==
    /\ ops[o].pc = "validate"
    /\ ops[o].kind = "create"
    /\ \E ok \in env.io :
          ops' = [ops EXCEPT ![o] = IF ok THEN [ops[o] EXCEPT !.pc = "upsert"]
                                    ELSE OpDone(ops[o], FALSE, MsgLayout)]
    /\ UNCHANGED <<templates, active, template_runs, runningTemplates, tickInProgress,
                   tick, max_parallel_runs, display_profile, now, run, runStore, live, env,
                   schedulerTimer, files, docs>>

\* templateStore.upsert answers: the file of the id holds the template; or
\* the write raises.
CreateUpsert(o) ==
    /\ ops[o].pc = "upsert"
    /\ ops[o].kind = "create"
    /\ \E ok \in env.io :
          IF ok THEN /\ templates' = Put(templates, ops[o].id, ops[o].template)
                     /\ ops' = [ops EXCEPT ![o].pc = "state"]
          ELSE /\ ops' = [ops EXCEPT ![o] = OpThrew(ops[o])]
               /\ UNCHANGED templates
    /\ UNCHANGED <<active, template_runs, runningTemplates, tickInProgress,
                   tick, max_parallel_runs, display_profile, now, run, runStore, live, env,
                   schedulerTimer, files, docs>>

\* loadState answers: with no active template the new one becomes active and
\* saveState is awaited; otherwise the response is returned.
CreateState(o) ==
    /\ ops[o].pc = "state"
    /\ ops[o].kind = "create"
    /\ IF CreateActivates(active)
       THEN /\ active' = ops[o].id
            /\ ops' = [ops EXCEPT ![o].pc = "save"]
       ELSE /\ ops' = [ops EXCEPT ![o] = OpDone(ops[o], TRUE, NULL)]
            /\ UNCHANGED active
    /\ UNCHANGED <<templates, template_runs, runningTemplates, tickInProgress,
                   tick, max_parallel_runs, display_profile, now, run, runStore, live, env,
                   schedulerTimer, files, docs>>

\* saveState answers or raises.
CreateSave(o) ==
    /\ ops[o].pc = "save"
    /\ ops[o].kind = "create"
    /\ \E ok \in env.io :
       /\ files' = IF ok THEN SaveState(files, active, template_runs) ELSE files
       /\ ops' = [ops EXCEPT ![o] = IF ok THEN OpDone(ops[o], TRUE, NULL)
                                    ELSE OpThrew(ops[o])]
    /\ UNCHANGED <<templates, active, template_runs, runningTemplates, tickInProgress,
                   tick, max_parallel_runs, display_profile, now, run, runStore, live, env,
                   schedulerTimer, docs>>

\* templateDelete(id): templateStore.get is awaited.
TemplateDelete(o, id) ==
    /\ ops[o].pc = "idle"
    /\ ops' = [ops EXCEPT ![o] = [IdleOp EXCEPT !.pc = "get", !.kind = "delete", !.id = id]]
    /\ UNCHANGED <<templates, active, template_runs, runningTemplates, tickInProgress,
                   tick, max_parallel_runs, display_profile, now, run, runStore, live, env,
                   schedulerTimer, files, docs>>

\* templateStore.get answers: an unknown id is refused; then remove is awaited.
DeleteGet(o) ==
    /\ ops[o].pc = "get"
    /\ ops[o].kind = "delete"
    /\ ops' = [ops EXCEPT ![o] =
                  IF ops[o].id \notin DOMAIN templates
                  THEN OpDone(ops[o], FALSE, MsgNotFound)
                  ELSE [ops[o] EXCEPT !.pc = "remove"]]
    /\ UNCHANGED <<templates, active, template_runs, runningTemplates, tickInProgress,
                   tick, max_parallel_runs, display_profile, now, run, runStore, live, env,
                   schedulerTimer, files, docs>>

\* templateStore.remove answers (rm with force), or raises.
DeleteRemove(o) ==
    /\ ops[o].pc = "remove"
    /\ ops[o].kind = "delete"
    /\ \E ok \in env.io :
          IF ok THEN /\ templates' = Remove(templates, ops[o].id)
                     /\ ops' = [ops EXCEPT ![o].pc = "state"]
          ELSE /\ ops' = [ops EXCEPT ![o] = OpThrew(ops[o])]
               /\ UNCHANGED templates
    /\ UNCHANGED <<active, template_runs, runningTemplates, tickInProgress,
                   tick, max_parallel_runs, display_profile, now, run, runStore, live, env,
                   schedulerTimer, files, docs>>

\* loadState answers: the run state of the id is dropped from the cached
\* state; when the id is the active one templateStore.list is awaited,
\* otherwise saveState.
DeleteState(o) ==
    /\ ops[o].pc = "state"
    /\ ops[o].kind = "delete"
    /\ template_runs' = Remove(template_runs, ops[o].id)
    /\ ops' = [ops EXCEPT ![o].pc = IF DeleteReassigns(active, ops[o].id) THEN "list"
                                    ELSE "save"]
    /\ UNCHANGED <<templates, active, runningTemplates, tickInProgress,
                   tick, max_parallel_runs, display_profile, now, run, runStore, live, env,
                   schedulerTimer, files, docs>>

\* templateStore.list answers: the first remaining template, or null,
\* becomes the active one; or the listing raises.
DeleteList(o) ==
    /\ ops[o].pc = "list"
    /\ ops[o].kind = "delete"
    /\ \E ok \in env.io :
          IF ok THEN /\ active' = FirstRemaining(templates)
                     /\ ops' = [ops EXCEPT ![o].pc = "save"]
          ELSE /\ ops' = [ops EXCEPT ![o] = OpThrew(ops[o])]
               /\ UNCHANGED active
    /\ UNCHANGED <<templates, template_runs, runningTemplates, tickInProgress,
                   tick, max_parallel_runs, display_profile, now, run, runStore, live, env,
                   schedulerTimer, files, docs>>

\* saveState answers or raises.
DeleteSave(o) ==
    /\ ops[o].pc = "save"
    /\ ops[o].kind = "delete"
    /\ \E ok \in env.io :
       /\ files' = IF ok THEN SaveState(files, active, template_runs) ELSE files
       /\ ops' = [ops EXCEPT ![o] = IF ok THEN OpDone(ops[o], TRUE, NULL)
                                    ELSE OpThrew(ops[o])]
    /\ UNCHANGED <<templates, active, template_runs, runningTemplates, tickInProgress,
                   tick, max_parallel_runs, display_profile, now, run, runStore, live, env,
                   schedulerTimer, docs>>

\* templateCopy(source, newId, name, activate): the id pattern is tested;
\* then templateStore.get of the source is awaited.
TemplateCopy(o, source, newId, activate) ==
    /\ ops[o].pc = "idle"
    /\ ops' = [ops EXCEPT ![o] =
                  LET call == [IdleOp EXCEPT !.kind = "copy", !.id = newId,
                                             !.source = source, !.activate = activate]
                  IN IF MatchesIdPattern(newId) THEN [call EXCEPT !.pc = "get"]
                     ELSE OpDone(call, FALSE, MsgInvalidId)]
    /\ UNCHANGED <<templates, active, template_runs, runningTemplates, tickInProgress,
                   tick, max_parallel_runs, display_profile, now, run, runStore, live, env,
                   schedulerTimer, files, docs>>

\* templateStore.get of the source answers; then the get of the new id is
\* awaited.
CopyGetSource(o) ==
    /\ ops[o].pc = "get"
    /\ ops[o].kind = "copy"
    /\ ops' = [ops EXCEPT ![o] =
                  IF ops[o].source \notin DOMAIN templates
                  THEN OpDone(ops[o], FALSE, MsgSourceNotFound)
                  ELSE [ops[o] EXCEPT !.pc = "getNew",
                                      !.template = templates[ops[o].source]]]
    /\ UNCHANGED <<templates, active, template_runs, runningTemplates, tickInProgress,
                   tick, max_parallel_runs, display_profile, now, run, runStore, live, env,
                   schedulerTimer, files, docs>>

\* templateStore.get of the new id answers: a stored id is a conflict; then
\* validateTemplate of the copy runs up to its await of validateOnly.
CopyGetNew(o) ==
    /\ ops[o].pc = "getNew"
    /\ ops[o].kind = "copy"
    /\ ops' = [ops EXCEPT ![o] =
                  IF ops[o].id \in DOMAIN templates THEN OpDone(ops[o], FALSE, MsgExists)
                  ELSE [ops[o] EXCEPT !.pc = "validate"]]
    /\ UNCHANGED <<templates, active, template_runs, runningTemplates, tickInProgress,
                   tick, max_parallel_runs, display_profile, now, run, runStore, live, env,
                   schedulerTimer, files, docs>>

\* validateOnly answers or fails; then upsert is awaited.
CopyValidate(o) ==
    /\ ops[o].pc = "validate"
    /\ ops[o].kind = "copy"
    /\ \E ok \in env.io :
          ops' = [ops EXCEPT ![o] = IF ok THEN [ops[o] EXCEPT !.pc = "upsert"]
                                    ELSE OpDone(ops[o], FALSE, MsgLayout)]
    /\ UNCHANGED <<templates, active, template_runs, runningTemplates, tickInProgress,
                   tick, max_parallel_runs, display_profile, now, run, runStore, live, env,
                   schedulerTimer, files, docs>>

\* templateStore.upsert of the copy answers or raises.
CopyUpsert(o) ==
    /\ ops[o].pc = "upsert"
    /\ ops[o].kind = "copy"
    /\ \E ok \in env.io :
          IF ok THEN /\ templates' = Put(templates, ops[o].id, ops[o].template)
                     /\ ops' = [ops EXCEPT ![o].pc = "state"]
          ELSE /\ ops' = [ops EXCEPT ![o] = OpThrew(ops[o])]
               /\ UNCHANGED templates
    /\ UNCHANGED <<active, template_runs, runningTemplates, tickInProgress,
                   tick, max_parallel_runs, display_profile, now, run, runStore, live, env,
                   schedulerTimer, files, docs>>

\* loadState answers: the copy becomes active when asked for or when no
\* template is active, and saveState is awaited; otherwise the response is
\* returned.
CopyState(o) ==
    /\ ops[o].pc = "state"
    /\ ops[o].kind = "copy"
    /\ IF CopyActivates(ops[o].activate, active)
       THEN /\ active' = ops[o].id
            /\ ops' = [ops EXCEPT ![o].pc = "save"]
       ELSE /\ ops' = [ops EXCEPT ![o] = OpDone(ops[o], TRUE, NULL)]
            /\ UNCHANGED active
    /\ UNCHANGED <<templates, template_runs, runningTemplates, tickInProgress,
                   tick, max_parallel_runs, display_profile, now, run, runStore, live, env,
                   schedulerTimer, files, docs>>

\* saveState answers or raises.
CopySave(o) ==
    /\ ops[o].pc = "save"
    /\ ops[o].kind = "copy"
    /\ \E ok \in env.io :
       /\ files' = IF ok THEN SaveState(files, active, template_runs) ELSE files
       /\ ops' = [ops EXCEPT ![o] = IF ok THEN OpDone(ops[o], TRUE, NULL)
                                    ELSE OpThrew(ops[o])]
    /\ UNCHANGED <<templates, active, template_runs, runningTemplates, tickInProgress,
                   tick, max_parallel_runs, display_profile, now, run, runStore, live, env,
                   schedulerTimer, docs>>

\* The caller of the operation resumes with its response or its error.
OpReturn(o) ==
    /\ ops[o].pc \in {"done", "threw"}
    /\ ops' = [ops EXCEPT ![o] = IdleOp]
    /\ UNCHANGED <<templates, active, template_runs, runningTemplates, tickInProgress,
                   tick, max_parallel_runs, display_profile, now, run, runStore, live, env,
                   schedulerTimer, files, docs>>

\* templateUpdate(templateId, payload): templateStore.get is awaited.  The
\* payload carries its own id; valid says whether it passes
\* validateTemplateShape and validateFieldPointers.
TemplateUpdate(o, id, payloadId, enabled, valid) ==
    /\ ops[o].pc = "idle"
    /\ ops' = [ops EXCEPT ![o] =
                  [IdleOp EXCEPT !.pc = "get", !.kind = "update", !.id = id,
                                 !.source = payloadId, !.valid = valid,
                                 !.template =
                                     [StoredTemplate(None, None) EXCEPT !.enabled = enabled]]]
    /\ UNCHANGED <<templates, active, template_runs, runningTemplates, tickInProgress,
                   tick, max_parallel_runs, display_profile, now, run, runStore, live, env,
                   schedulerTimer, files, docs>>

\* templateStore.get answers: an unknown id and a payload of another id are
\* refused; then validateTemplate runs up to its await of validateOnly.
UpdateGet(o) ==
    /\ ops[o].pc = "get"
    /\ ops[o].kind = "update"
    /\ ops' = [ops EXCEPT ![o] =
                  IF ops[o].id \notin DOMAIN templates THEN OpDone(ops[o], FALSE, MsgNotFound)
                  ELSE IF ops[o].source # ops[o].id THEN OpDone(ops[o], FALSE, MsgMismatch)
                  ELSE IF ~ops[o].valid THEN OpDone(ops[o], FALSE, MsgTemplateShape)
                  ELSE [ops[o] EXCEPT !.pc = "validate"]]
    /\ UNCHANGED <<templates, active, template_runs, runningTemplates, tickInProgress,
                   tick, max_parallel_runs, display_profile, now, run, runStore, live, env,
                   schedulerTimer, files, docs>>

\* validateOnly of the base dashboard answers or fails; then upsert is awaited.
UpdateValidate(o) ==
    /\ ops[o].pc = "validate"
    /\ ops[o].kind = "update"
    /\ \E ok \in env.io :
          ops' = [ops EXCEPT ![o] = IF ok THEN [ops[o] EXCEPT !.pc = "upsert"]
                                    ELSE OpDone(ops[o], FALSE, MsgLayout)]
    /\ UNCHANGED <<templates, active, template_runs, runningTemplates, tickInProgress,
                   tick, max_parallel_runs, display_profile, now, run, runStore, live, env,
                   schedulerTimer, files, docs>>

\* templateStore.upsert answers and the response is returned; or the write
\* raises.
UpdateUpsert(o) ==
    /\ ops[o].pc = "upsert"
    /\ ops[o].kind = "update"
    /\ \E ok \in env.io :
          IF ok THEN /\ templates' = Put(templates, ops[o].id, ops[o].template)
                     /\ ops' = [ops EXCEPT ![o] = OpDone(ops[o], TRUE, NULL)]
          ELSE /\ ops' = [ops EXCEPT ![o] = OpThrew(ops[o])]
               /\ UNCHANGED templates
    /\ UNCHANGED <<active, template_runs, runningTemplates, tickInProgress,
                   tick, max_parallel_runs, display_profile, now, run, runStore, live, env,
                   schedulerTimer, files, docs>>

\* templateActivate(templateId) as a call with its awaits: templateStore.get
\* is awaited.
ActivateCall(o, id) ==
    /\ ops[o].pc = "idle"
    /\ ops' = [ops EXCEPT ![o] = [IdleOp EXCEPT !.pc = "get", !.kind = "activate",
                                                !.id = id]]
    /\ UNCHANGED <<templates, active, template_runs, runningTemplates, tickInProgress,
                   tick, max_parallel_runs, display_profile, now, run, runStore, live, env,
                   schedulerTimer, files, docs>>

\* templateStore.get answers: an unknown id is refused; then loadState is
\* awaited.
ActivateGet(o) ==
    /\ ops[o].pc = "get"
    /\ ops[o].kind = "activate"
    /\ ops' = [ops EXCEPT ![o] =
                  IF ops[o].id \notin DOMAIN templates THEN OpDone(ops[o], FALSE, MsgNotFound)
                  ELSE [ops[o] EXCEPT !.pc = "state"]]
    /\ UNCHANGED <<templates, active, template_runs, runningTemplates, tickInProgress,
                   tick, max_parallel_runs, display_profile, now, run, runStore, live, env,
                   schedulerTimer, files, docs>>

\* loadState answers: the id becomes the active one and saveState is awaited.
ActivateState(o) ==
    /\ ops[o].pc = "state"
    /\ ops[o].kind = "activate"
    /\ active' = ops[o].id
    /\ ops' = [ops EXCEPT ![o].pc = "save"]
    /\ UNCHANGED <<templates, template_runs, runningTemplates, tickInProgress,
                   tick, max_parallel_runs, display_profile, now, run, runStore, live, env,
                   schedulerTimer, files, docs>>

\* saveState answers or raises.
ActivateSave(o) ==
    /\ ops[o].pc = "save"
    /\ ops[o].kind = "activate"
    /\ \E ok \in env.io :
       /\ files' = IF ok THEN SaveState(files, active, template_runs) ELSE files
       /\ ops' = [ops EXCEPT ![o] = IF ok THEN OpDone(ops[o], TRUE, NULL)
                                    ELSE OpThrew(ops[o])]
    /\ UNCHANGED <<templates, active, template_runs, runningTemplates, tickInProgress,
                   tick, max_parallel_runs, display_profile, now, run, runStore, live, env,
                   schedulerTimer, docs>>

\* runNow(templateId) as a call with its awaits: templateStore.get is awaited.
RunNowCall(o, id) ==
    /\ ops[o].pc = "idle"
    /\ ops' = [ops EXCEPT ![o] = [IdleOp EXCEPT !.pc = "get", !.kind = "runNow",
                                                !.id = id]]
    /\ UNCHANGED <<templates, active, template_runs, runningTemplates, tickInProgress,
                   tick, max_parallel_runs, display_profile, now, run, runStore, live, env,
                   schedulerTimer, files, docs>>

\* templateStore.get answers: an unknown id is refused; otherwise
\* executeAndPersist is called, runs to its first await and is awaited.
RunNowGet(o) ==
    /\ ops[o].pc = "get"
    /\ ops[o].kind = "runNow"
    /\ IF ops[o].id \notin DOMAIN templates
       THEN /\ ops' = [ops EXCEPT ![o] = OpDone(ops[o], FALSE, MsgNotFound)]
            /\ UNCHANGED <<runningTemplates, run>>
       ELSE /\ FreeSlots(run) # {}
            /\ LET st == ExecuteBegin(templates[ops[o].id], ops[o].id, "manual", now,
                                      [running |-> runningTemplates, run |-> run,
                                       overflow |-> FALSE])
               IN /\ runningTemplates' = st.running
                  /\ run' = st.run
            /\ ops' = [ops EXCEPT ![o].pc = "await", ![o].slot = LowestFree(run)]
    /\ UNCHANGED <<templates, active, template_runs, tickInProgress, tick,
                   max_parallel_runs, display_profile, now, runStore, live, env,
                   schedulerTimer, files, docs>>

\* executeAndPersist has settled: runNow answers from the artifact, or the
\* error goes on to the caller.  The slot is free again and the model stops
\* tracking the artifact.
RunNowAnswer(o) ==
    /\ ops[o].pc = "await"
    /\ ops[o].kind = "runNow"
    /\ run[ops[o].slot].pc \in {"done", "threw", "writeFailed"}
    /\ run' = [run EXCEPT ![ops[o].slot] = FreeRun]
    /\ runStore' = {w \in runStore : w.rid # ops[o].slot}
    /\ ops' = [ops EXCEPT ![o] =
                  IF run[ops[o].slot].pc = "done"
                  THEN [ops[o] EXCEPT !.pc = "done",
                                      !.ok = RunNowResponse(run[ops[o].slot].artifact).ok,
                                      !.error = IF RunNowResponse(run[ops[o].slot].artifact).ok
                                                THEN NULL ELSE "run failed"]
                  ELSE OpThrew(ops[o])]
    /\ UNCHANGED <<templates, active, template_runs, runningTemplates, tickInProgress,
                   tick, max_parallel_runs, display_profile, now, live, env,
                   schedulerTimer, files, docs>>

\* One step of a pending templateUpdate, templateActivate or runNow call.
OpStepMore(o) ==
    \/ UpdateGet(o) \/ UpdateValidate(o) \/ UpdateUpsert(o)
    \/ ActivateGet(o) \/ ActivateState(o) \/ ActivateSave(o)
    \/ RunNowGet(o) \/ RunNowAnswer(o)

\* A call of templateUpdate, templateActivate or runNow arrives in slot o.
OpCallMore(o, ids) ==
    \/ \E id, payloadId \in ids : \E enabled, valid \in BOOLEAN :
          TemplateUpdate(o, id, payloadId, enabled, valid)
    \/ \E id \in ids : ActivateCall(o, id)
    \/ \E id \in ids : RunNowCall(o, id)

\* One step of the pending template operation in slot o.
OpStep(o) ==
    \/ CreateGet(o) \/ CreateValidate(o) \/ CreateUpsert(o) \/ CreateState(o)
    \/ CreateSave(o)
    \/ DeleteGet(o) \/ DeleteRemove(o) \/ DeleteState(o) \/ DeleteList(o)
    \/ DeleteSave(o)
    \/ CopyGetSource(o) \/ CopyGetNew(o) \/ CopyValidate(o) \/ CopyUpsert(o)
    \/ CopyState(o) \/ CopySave(o)
    \/ OpReturn(o)

\* A call of a template operation arrives in slot o.
OpCallWith(o, ids, newIds) ==
    \/ \E id \in ids : \E enabled, valid \in BOOLEAN :
          TemplateCreate(o, id, enabled, valid)
    \/ \E id \in ids : TemplateDelete(o, id)
    \/ \E source \in ids : \E newId \in newIds : \E activate \in BOOLEAN :
          TemplateCopy(o, source, newId, activate)

OpCall(o) == OpCallWith(o, CrudIds, RequestedIds)

\* After init() on an empty data directory with no dashboard to seed from:
\* no template, no active template; file operations do not fail.
InitCrud ==
    /\ env = [fill |-> {"valid"}, io |-> {TRUE}]
    /\ templates = NoListing
    /\ active = NULL
    /\ template_runs = [id \in {} |-> EmptyRunState]
    /\ runningTemplates = {}
    /\ tickInProgress = FALSE
    /\ tick = [k \in TickIds |-> IdleTick]
    /\ max_parallel_runs = 1
    /\ display_profile = ConfigProfile
    /\ now = MsPerMinute
    /\ run = [p \in Procs |-> FreeRun]
    /\ runStore = {}
    /\ live = "bootstrap"
    /\ ops = [o \in OpIds |-> IdleOp]
    /\ schedulerTimer = TRUE
    /\ files = NoFiles
    /\ docs = NoDocs

\* Template operations called one after the other: each call is made when
\* the one before has returned.
NextCrudSeq ==
    \/ OpCall(1)
    \/ OpStep(1)
    \/ /\ ops[1].pc = "idle"
       /\ \E id \in CrudIds : TemplateActivate(id)

\* Template operations called concurrently.
NextCrud ==
    \/ \E o \in OpIds : OpCallWith(o, TemplateIds, TemplateIds \cup {"B"})
    \/ \E o \in OpIds : OpStep(o)

SpecCrudSeq == InitCrud /\ [][NextCrudSeq]_vars
SpecCrud == InitCrud /\ [][NextCrud]_vars

\* The scheduler: ticks, manual runs and the clock.
Next ==
    \/ Tock
    \/ \E id \in TemplateIds : RunNow(id)
    \/ TickStart
    \/ \E k \in TickIds : TickList(k)
    \/ \E k \in TickIds : TickLoop(k)
    \/ RunStep

\* The run pipeline alone, driven by runNow.
NextRun ==
    \/ \E id \in TemplateIds : RunNow(id)
    \/ RunStep

\* Manual runs while the active template is switched.
NextPublish ==
    \/ \E id \in TemplateIds : RunNow(id)
    \/ \E id \in TemplateIds : TemplateActivate(id)
    \/ RunStep

Spec == Init /\ [][Next]_vars
SpecRetry == InitRetry /\ [][NextRun]_vars
SpecPublish == InitPublish /\ [][NextPublish]_vars

\* The scheduler alone: ticks, the clock and the runs the ticks start.
NextSched ==
    \/ Tock
    \/ TickStart
    \/ \E k \in TickIds : TickList(k)
    \/ \E k \in TickIds : TickLoop(k)
    \/ RunStep

SpecDue == InitDue /\ [][NextSched]_vars

\* One step of executeTemplateRun in slot p.  Each of its awaits (file reads
\* and writes, the provider call and the writer under their timeouts, the
\* backoff timer) settles, so a pending invocation is not left waiting forever.
PipelineStep(p) ==
    \/ RunLoad(p) \/ RunSave0(p) \/ RunFill(p) \/ RunValidate(p) \/ RunReload(p)
    \/ RunPublish(p) \/ RunSave1(p) \/ RunSleep(p) \/ RunLoadF(p) \/ RunSaveF(p)

\* The scheduler running without end: the timer keeps invoking tickScheduler,
\* every await of a tick and of a run settles, and time passes.
NextForever ==
    \/ Tock
    \/ TockRebase
    \/ TickStart
    \/ \E k \in TickIds : TickList(k)
    \/ \E k \in TickIds : TickLoop(k)
    \/ RunStep

SpecForever ==
    /\ Init
    /\ [][NextForever]_vars
    /\ WF_vars(TickStart)
    /\ \A k \in TickIds : WF_vars(TickList(k) \/ TickLoop(k))
    /\ \A p \in Procs : WF_vars(PipelineStep(p) \/ RunPersist(p) \/ RunReturn(p))
    /\ WF_vars(Tock \/ TockRebase)

SpecBound ==
    /\ InitBound
    /\ [][NextRun]_vars
    /\ \A p \in Procs : WF_vars(PipelineStep(p))
\* ================================================================ claims

\* One template with one retry, a provider that answers or fails, and file
\* operations and a writer that can fail.
InitOps ==
    InitWith([id \in {"a"} |-> StoredTemplate(Some(1), Some(0))],
             [fill |-> {"valid", "parse_error"}, io |-> BOOLEAN])

\* Every user operation, called one after the other; the runs are those that
\* runNow starts and awaits.
NextOps ==
    \/ OpCallWith(1, {"a", "c"}, {"c", "B"})
    \/ OpCallMore(1, {"a", "c"})
    \/ OpStep(1)
    \/ OpStepMore(1)
    \/ \E p \in Procs : PipelineStep(p)
    \/ \E p \in Procs : RunPersist(p)

SpecOps == InitOps /\ [][NextOps]_vars

\* The same operations with state.json followed: it holds the state as
\* init() left it, and no file operation fails.
InitPersist ==
    InitStateFiles([id \in {"a"} |-> StoredTemplate(Some(1), Some(0))],
                   [fill |-> {"valid", "parse_error"}, io |-> {TRUE}],
                   [id \in {} |-> EmptyRunState],
                   StateFile("a", [id \in {} |-> EmptyRunState]))

SpecPersist == InitPersist /\ [][NextOps]_vars

\* The invocation in slot p is inside executeTemplateRun, past the in-flight
\* check: it holds its template id in the in-flight set.
InPipeline(p) ==
    run[p].pc \in {"load", "save0", "fill", "validate", "reload", "publish",
                   "save1", "sleep", "loadF", "saveF"}

\* The slot holds an invocation that was refused at the in-flight check.
Rejected(p) ==
    /\ run[p].pc \in {"persist", "done", "writeFailed"}
    /\ run[p].artifact.errors = <<MsgInProgress>>

\* C1: under every interleaving of ticks and runNow calls, no two invocations
\* are inside the run pipeline for the same template id, and an invocation
\* inside the pipeline holds its id in the in-flight set.
C1_OneRunPerTemplate ==
    \A p \in Procs :
        InPipeline(p) =>
            /\ run[p].tmpl \in runningTemplates
            /\ \A q \in Procs \ {p} : InPipeline(q) => run[q].tmpl # run[p].tmpl

\* C1 witness: one invocation is in the pipeline for a template while a
\* second invocation for the same template has been refused.
C1_Witness ==
    \E p, q \in Procs :
        /\ InPipeline(p)
        /\ Rejected(q)
        /\ run[q].pc = "persist"
        /\ run[q].tmpl = run[p].tmpl

\* The in-flight ids whose run was started by the given trigger.
InFlightBy(trigger) ==
    {run[p].tmpl : p \in {q \in Procs : InPipeline(q) /\ run[q].trigger = trigger}}

C4_ExactlyOneArtifact ==
    \A p \in Procs :
        run[p].pc \in {"done", "threw"} =>
            Cardinality({w \in runStore : w.rid = p}) = 1

ManualStartInFlight(p) ==
    /\ run[p].pc = "free"
    /\ run'[p].pc # "free"
    /\ run'[p].trigger = "manual"
    /\ run'[p].tmpl \in runningTemplates

\* C6: runNow for a template in flight is refused at once: the artifact is a
\* failure with the in-progress message (so the response has ok = false),
\* the in-flight set, the run state and the other invocations are untouched,
\* and the refused invocation never enters the pipeline (no fill, no queue).
C6_RunNowFailsFast ==
    [][\A p \in Procs :
          /\ ManualStartInFlight(p) =>
                /\ run'[p].pc = "persist"
                /\ run'[p].artifact.status = "failed"
                /\ run'[p].artifact.errors = <<MsgInProgress>>
                /\ ~RunNowResponse(run'[p].artifact).ok
                /\ runningTemplates' = runningTemplates
                /\ template_runs' = template_runs
                /\ \A q \in Procs \ {p} : run'[q] = run[q]
          /\ Rejected(p) =>
                /\ ~InPipeline(p)'
                /\ template_runs' = template_runs \/ run'[p] = run[p]
      ]_vars

\* C6 witness: a runNow invocation has been refused while a scheduled run of
\* the same template is in the pipeline.
C6_Witness ==
    \E p, q \in Procs :
        /\ InPipeline(p)
        /\ run[p].trigger = "schedule"
        /\ Rejected(q)
        /\ run[q].trigger = "manual"
        /\ run[q].tmpl = run[p].tmpl
        /\ run[q].pc = "done"

\* C2: a run calls publish exactly in the step in which its state re-load
\* answers and finds active_template_id equal to its own template id; a run
\* whose template is not the active one at that step goes on without publish.
C2_PublishIffActiveAtReload ==
    [][\A p \in Procs :
          (run[p].pc # "publish" /\ run'[p].pc = "publish")
              <=> (run[p].pc = "reload" /\ run'[p] # run[p] /\ active = run[p].tmpl)
      ]_vars

\* C2 witness: one run is inside publish for a template that was activated
\* after the start, while another run has passed its re-load without publish.
C2_Witness ==
    \E p, q \in Procs :
        /\ run[p].pc = "publish"
        /\ run[p].tmpl = "b"
        /\ run[q].pc = "save1"
        /\ ~run[q].published

\* C7: a runNow of a template that is not the active one never calls publish
\* and never has published set; when no attempt of it failed it returns
\* ok = true with published = false; and the live dashboard file holds the
\* bootstrap content or the last publish of the active template.  (The
\* active template is not switched during the run.)
C7_InactiveRunNowDoesNotPublish ==
    /\ live \in {"bootstrap", active}
    /\ \A p \in Procs :
          (run[p].trigger = "manual" /\ run[p].tmpl # active) =>
              /\ run[p].pc # "publish"
              /\ ~run[p].published
              /\ (run[p].pc \in {"persist", "done"} /\ run[p].artifact.errors = <<>>) =>
                    /\ RunNowResponse(run[p].artifact).ok
                    /\ ~RunNowResponse(run[p].artifact).published

\* C7 witness: a runNow of the inactive template has returned its success
\* artifact while the live file holds what the active template published.
C7_Witness ==
    \E p \in Procs :
        /\ run[p].trigger = "manual"
        /\ run[p].tmpl # active
        /\ run[p].pc = "done"
        /\ run[p].artifact.status = "success"
        /\ ~run[p].artifact.published
        /\ live = active

\* The step of slot p records message as the failure of what it awaited:
\* as the hint of a repair iteration, or as an error of the attempt.
FailsWith(p, message) ==
    \/ /\ run'[p].hint = message
       /\ run'[p].repair = run[p].repair + 1
    \/ run'[p].errors = Append(run[p].errors, message)

\* The step of slot p goes into a repair iteration with the given hint: the
\* fill runner is called again in the same attempt, nothing is pushed to
\* errors, there is no backoff sleep.
Repairs(p, message) ==
    /\ run'[p].pc = "fill"
    /\ run'[p].hint = message
    /\ run'[p].repair = run[p].repair + 1
    /\ run'[p].attempt = run[p].attempt
    /\ run'[p].attemptCount = run[p].attemptCount
    /\ run'[p].errors = run[p].errors

RepairsRemain(p) == run[p].repair < RepairAttemptsOf(run[p].template)

\* C8: when merge or validate-only fails and repair iterations remain, the
\* fill runner is called again in the same attempt with the message as hint,
\* without backoff and without a new attempt; and in every attempt
\* attempt_count is the attempt index plus one whatever the repairs, so a
\* success after a repair in the first attempt has attempt_count = 1.
C8_RepairWithinAttempt ==
    /\ [][\A p \in Procs : \A message \in {MsgMerge, MsgLayout} :
             (run[p].pc \in {"fill", "validate"} /\ FailsWith(p, message)
                  /\ RepairsRemain(p))
                 => Repairs(p, message)
         ]_vars
    /\ [](\A p \in Procs :
             run[p].pc \in {"fill", "validate", "reload", "publish", "save1"} =>
                 /\ run[p].attemptCount = run[p].attempt + 1
                 /\ Len(run[p].errors) = run[p].attempt)

\* C8 witness: in the first attempt a merge or layout failure was repaired,
\* the repaired response passed and the success is recorded.
C8_Witness ==
    \E p \in Procs :
        /\ run[p].pc = "save1"
        /\ run[p].repair = 1
        /\ run[p].hint \in {MsgMerge, MsgLayout}
        /\ run[p].attemptCount = 1
        /\ RunStateOf(template_runs, run[p].tmpl).last_status = "success"

\* C9 as stated: a response that fails shape validation while repair
\* iterations remain leads to a repair iteration with the shape error as
\* hint, in the same attempt.
C9_ShapeErrorRepaired ==
    [][\A p \in Procs :
          (run[p].pc = "fill" /\ FailsWith(p, MsgShape) /\ RepairsRemain(p))
              => Repairs(p, MsgShape)
      ]_vars

\* C10 as stated: a fill runner failure on unparseable output while repair
\* iterations remain leads to a repair iteration with that error as hint,
\* before any retry with backoff.
C10_ParseErrorRepaired ==
    [][\A p \in Procs :
          (run[p].pc = "fill" /\ FailsWith(p, MsgParse) /\ RepairsRemain(p))
              => Repairs(p, MsgParse)
      ]_vars
\* C11: a run makes at most retry_count + 1 attempts and at most
\* repair_attempts + 1 fill calls in each, so at most
\* (retry_count + 1) * (repair_attempts + 1) fill calls in all, and the
\* attempt_count of its artifact is at most retry_count + 1; with both at 0
\* the fill runner is called once and a failure ends the run without sleep;
\* and a run that entered the pipeline leaves it.
C11_BoundedWork ==
    /\ [](\A p \in Procs :
             LET retry == RetryCountOf(templates[run[p].tmpl])
                 repair == RepairAttemptsOf(templates[run[p].tmpl])
             IN /\ InPipeline(p) =>
                     /\ run[p].attempt <= retry
                     /\ run[p].attemptCount <= retry + 1
                     /\ run[p].repair <= repair
                     /\ run[p].fills <= (retry + 1) * (repair + 1)
                     /\ (retry = 0 /\ repair = 0) =>
                           /\ run[p].pc # "sleep"
                           /\ run[p].pc = "fill" => run[p].fills = 0
                           /\ run[p].pc \in {"validate", "reload", "publish", "save1", "loadF", "saveF"}
                                 => run[p].fills = 1
                /\ (run[p].pc = "persist" /\ ~Rejected(p)) =>
                     /\ run[p].artifact.attempt_count >= 1
                     /\ run[p].artifact.attempt_count <= retry + 1)
    /\ \A p \in Procs : InPipeline(p) ~> ~InPipeline(p)

\* C11 witness: a run with one retry and one repair iteration has used all
\* four fill calls and failed.
C11_Witness ==
    \E p \in Procs :
        /\ run[p].pc = "loadF"
        /\ RetryCountOf(run[p].template) = 1
        /\ RepairAttemptsOf(run[p].template) = 1
        /\ run[p].fills = 4
        /\ run[p].attemptCount = 2
\* The tickScheduler invocation in slot k is between setting and clearing
\* tickInProgress.
TickHolds(k) == tick[k].pc \in {"list", "state"}

\* C12: at most one tickScheduler invocation is between setting and clearing
\* tickInProgress, and it is then set; an invocation made meanwhile returns
\* in that very step, without listing templates, starting a run or touching
\* the lock.
C12_TickNotReentrant ==
    /\ [](/\ Cardinality({k \in TickIds : TickHolds(k)}) <= 1
          /\ (\E k \in TickIds : TickHolds(k)) => tickInProgress)
    /\ [][\A k \in TickIds :
             (tick[k].pc = "idle" /\ tick'[k].pc # "idle" /\ \E j \in TickIds : TickHolds(j))
                 => /\ tick'[k].pc = "returned"
                    /\ tick'[k].listed = NoListing
                    /\ run' = run
                    /\ runningTemplates' = runningTemplates
                    /\ tickInProgress' = tickInProgress
                    /\ \A j \in TickIds \ {k} : tick'[j] = tick[j]
         ]_vars

\* C12 witness: while one invocation awaits between listing and the loop, a
\* second invocation has returned at once.
C12_Witness ==
    \E k, j \in TickIds :
        /\ tick[k].pc = "state"
        /\ tick[j].pc = "returned"
        /\ tickInProgress
\* Slot p takes a run started by the tick in this step.
ScheduledStart(p) ==
    /\ run[p].pc = "free"
    /\ run'[p].pc # "free"
    /\ run'[p].trigger = "schedule"

\* The stored timestamps of a template that parse.
ParsedTimes(id) ==
    {m \in RunStateOf(template_runs, id).last_attempt_at
            \cup RunStateOf(template_runs, id).last_success_at : m # InvalidDate}

\* C13: a tick starts a run of a template only if the template is enabled,
\* is not in flight, and is due: no stored timestamp of it parses, or now is
\* at least every_minutes * 60 s past the later of those that parse.  The
\* run it starts passes the in-flight check.
C13_TickStartsOnlyDue ==
    [][\A p \in Procs :
          ScheduledStart(p) =>
              LET id == run'[p].tmpl
              IN /\ templates[id].enabled
                 /\ id \notin runningTemplates
                 /\ run'[p].pc = "load"
                 /\ \/ ParsedTimes(id) = {}
                    \/ \A m \in ParsedTimes(id) :
                          now >= m + templates[id].every_minutes * MsPerMinute
      ]_vars

\* C13 witness: a tick has started a template whose stored last attempt is a
\* minute old, while the other template is disabled and was left alone.
C13_Witness ==
    \E p \in Procs :
        /\ run[p].pc = "load"
        /\ run[p].trigger = "schedule"
        /\ ParsedTimes(run[p].tmpl) = {MsPerMinute}
        /\ \E id \in TemplateIds : ~templates[id].enabled
\* C14 as stated: with max_parallel_runs = 1 and two enabled templates, both
\* due, the scheduler never has the two in flight together, and each of the
\* two is eventually started by a tick.
C14_BothEventuallyStarted ==
    /\ [](Cardinality({run[p].tmpl : p \in {q \in Procs : InPipeline(q)}}) <= 1)
    /\ \A id \in TemplateIds :
          <>(\E p \in Procs : InPipeline(p) /\ run[p].trigger = "schedule"
                                /\ run[p].tmpl = id)
\* The step of slot o is the given step of a template operation of the
\* given kind.
OpMoves(o, kind, from, to) ==
    /\ ops[o].kind = kind
    /\ ops[o].pc = from
    /\ ops'[o].pc = to

\* The operation in slot o has stored its template and will answer ok.
OpSucceeds(o, kind) ==
    /\ ops[o].kind = kind
    /\ \/ ops[o].pc \in {"state", "save"}
       \/ ops[o].pc = "done" /\ ops[o].ok

\* C15: a templateCreate that is accepted has stored its template under its
\* id; in the step that follows the store it sets active_template_id to the
\* new id when it was null and leaves it as it was otherwise, and no other
\* step of a create changes active_template_id.
C15_CreateActivatesIffNone ==
    /\ [][\A o \in OpIds :
             (ops[o].kind = "create" /\ ops'[o] # ops[o]) =>
                 IF ops[o].pc = "state"
                 THEN /\ active = NULL => (active' = ops[o].id /\ ops'[o].pc = "save")
                      /\ active # NULL => (active' = active /\ ops'[o].pc = "done"
                                           /\ ops'[o].ok)
                 ELSE active' = active
         ]_vars
    /\ [](\A o \in OpIds :
             OpSucceeds(o, "create") =>
                 /\ ops[o].id \in DOMAIN templates
                 /\ templates[ops[o].id] = ops[o].template
                 /\ ops[o].valid
                 /\ ops[o].pc # "state" => active # NULL)

\* C15 witness: a create has answered ok while another template was and
\* stays the active one.
C15_Witness ==
    \E o \in OpIds :
        /\ ops[o].kind = "create"
        /\ ops[o].pc = "done"
        /\ ops[o].ok
        /\ active # NULL
        /\ active # ops[o].id
        /\ active \in DOMAIN templates

\* C16 as stated: a create never writes over a stored template: when its
\* upsert is made no template with its id is stored, so of two creates of
\* one id at most one gets as far as the upsert.
C16_CreateNeverOverwrites ==
    [][\A o \in OpIds :
          OpMoves(o, "create", "upsert", "state") => ops[o].id \notin DOMAIN templates
      ]_vars

\* The smallest of the stored ids in ascending order, null when none is stored.
SmallestStored ==
    IF DOMAIN templates = {} THEN NULL
    ELSE CHOOSE id \in DOMAIN templates :
             \A other \in DOMAIN templates :
                 \E i, j \in 1..Len(IdOrder) : IdOrder[i] = id /\ IdOrder[j] = other /\ i <= j

C19_CopyPreconditionsAndActivation ==
    /\ [][\A o \in OpIds :
             /\ (ops[o].pc = "idle" /\ ops'[o].kind = "copy"
                     /\ ops'[o].id \notin {"a", "b", "c"})
                    => (ops'[o].pc = "done" /\ ~ops'[o].ok)
             /\ OpMoves(o, "copy", "upsert", "state") =>
                    /\ ops[o].id \in {"a", "b", "c"}
                    /\ ops[o].source \in DOMAIN templates
                    /\ ops[o].id \notin DOMAIN templates
                    /\ templates'[ops[o].id] = templates[ops[o].source]
             /\ (ops[o].kind = "copy" /\ ops'[o] # ops[o]) =>
                    IF ops[o].pc = "state"
                    THEN active' = IF ops[o].activate \/ active = NULL THEN ops[o].id
                                   ELSE active
                    ELSE active' = active
         ]_vars
    /\ [](\A o \in OpIds :
             (ops[o].kind = "copy" /\ ops[o].pc = "done" /\ ops[o].ok) =>
                 ops[o].id \in DOMAIN templates)

\* C19 witness: a copy made without activate has answered ok and the source
\* is still the active template.
C19_Witness ==
    \E o \in OpIds :
        /\ ops[o].kind = "copy"
        /\ ops[o].pc = "done"
        /\ ops[o].ok
        /\ ~ops[o].activate
        /\ active = ops[o].source
        /\ ops[o].id # ops[o].source

\* C20: a step that changes active_template_id by templateActivate changes
\* nothing else: no run is started, the in-flight set, the run artifacts,
\* template_runs, the stored templates and the live file stay as they are.
C20_ActivateChangesOnlyActive ==
    [][active' # active =>
          /\ active' \in DOMAIN templates
          /\ run' = run
          /\ runningTemplates' = runningTemplates
          /\ runStore' = runStore
          /\ template_runs' = template_runs
          /\ templates' = templates
          /\ live' = live
          /\ tick' = tick
          /\ tickInProgress' = tickInProgress
      ]_vars

\* C20 witness: "b" has been activated; nothing runs, nothing was written.
C20_Witness ==
    /\ active = "b"
    /\ runningTemplates = {}
    /\ \A p \in Procs : run[p].pc = "free"
    /\ runStore = {}
    /\ live = "bootstrap"
    /\ template_runs = [id \in {} |-> EmptyRunState]
\* The errors of the refusals of the user operations.
RefusalErrors ==
    {MsgExists, MsgTemplateShape, MsgLayout, MsgNotFound, MsgMismatch, MsgInvalidId,
     MsgSourceNotFound}

\* The operation in slot o answers a refusal in this step.
Refuses(o) ==
    /\ ops[o].pc \notin {"done", "threw"}
    /\ ops'[o].pc = "done"
    /\ ~ops'[o].ok
    /\ ops'[o].error \in RefusalErrors

\* This step changes the template store, the runtime state, the live file, or
\* adds a run artifact.
ChangesStored ==
    \/ templates' # templates
    \/ active' # active
    \/ template_runs' # template_runs
    \/ live' # live
    \/ ~(runStore' \subseteq runStore)

\* The operation has passed its checks: it goes on to its ok answer, or an
\* error of a file operation ends it.
PastChecks(op) ==
    \/ op.pc \in {"state", "list", "save", "threw"}
    \/ op.pc = "done" /\ op.ok

\* C21: a user operation that is refused (an existing id, an invalid
\* template, an unknown id, a mismatched id, an invalid or existing new id, a
\* missing source) answers ok=false with an error, and no step of it, from
\* the call to the answer, changes the template store, the runtime state, the
\* live file or the run artifacts: the refusing step changes nothing, a step
\* of an operation that changes something takes the operation past its
\* checks, and an operation past its checks is not refused.
C21_RefusalChangesNothing ==
    [][\A o \in OpIds :
          /\ Refuses(o) => (~ChangesStored /\ ops'[o].error # NULL)
          /\ (ops'[o] # ops[o] /\ ops'[o].pc # "idle" /\ ChangesStored) => PastChecks(ops'[o])
          /\ (ops[o].pc \in {"state", "list", "save"} /\ ops'[o] # ops[o])
                => PastChecks(ops'[o])
      ]_vars

\* C21 witness: a templateUpdate whose payload has another id has been
\* refused, after a run has left its state.
C21_Witness ==
    \E o \in OpIds :
        /\ ops[o].kind = "update"
        /\ ops[o].pc = "done"
        /\ ~ops[o].ok
        /\ ops[o].error = MsgMismatch
        /\ DOMAIN template_runs # {}
\* A call of saveState has not answered yet.
SaveInProgress ==
    \/ \E p \in Procs : run[p].pc \in {"save0", "save1", "saveF"}
    \/ \E o \in OpIds : ops[o].pc = "save"

\* C29 as stated: whenever no state save is in progress, state.json holds
\* the state as it is in the cache.
C29_DiskEqualsCache ==
    ~SaveInProgress =>
        files.state = Some([active_template_id |-> active, template_runs |-> template_runs])
\* C30: in the step that ends a run, the run state of its template matches
\* the outcome: a run that ends in success leaves last_status = "success",
\* last_success_at set and no last_error; a run that ends in failure leaves
\* last_status = "failed" and as last_error the message of its last failed
\* attempt, the last message pushed to its errors; a message is pushed only
\* by the step in which an attempt fails.
C30_RunStateMatchesOutcome ==
    [][\A p \in Procs :
          /\ (run[p].pc = "save1" /\ run'[p].pc = "persist") =>
                /\ run'[p].artifact.status = "success"
                /\ RunStateOf(template_runs', run[p].tmpl).last_status = "success"
                /\ RunStateOf(template_runs', run[p].tmpl).last_success_at # None
                /\ RunStateOf(template_runs', run[p].tmpl).last_error = NULL
          /\ (run[p].pc = "saveF" /\ run'[p].pc = "persist") =>
                /\ run'[p].artifact.status = "failed"
                /\ run[p].errors # <<>>
                /\ RunStateOf(template_runs', run[p].tmpl).last_status = "failed"
                /\ RunStateOf(template_runs', run[p].tmpl).last_error
                       = run[p].errors[Len(run[p].errors)]
          /\ (InPipeline(p) /\ run'[p].pc \notin {"threw", "persist"}
                  /\ run'[p].errors # run[p].errors) =>
                /\ run[p].pc \in {"fill", "validate", "publish", "save1"}
                /\ run'[p].pc \in {"sleep", "loadF"}
                /\ \E message \in {MsgParse, MsgShape, MsgMerge, MsgLayout, MsgIo} :
                      run'[p].errors = Append(run[p].errors, message)
      ]_vars

\* C30 witness: a run has ended in failure after two failed attempts with
\* different messages, and last_error is the second.
C30_Witness ==
    \E p \in Procs :
        /\ run[p].pc = "persist"
        /\ run[p].artifact.status = "failed"
        /\ Len(run[p].artifact.errors) = 2
        /\ run[p].artifact.errors[1] # run[p].artifact.errors[2]
        /\ RunStateOf(template_runs, run[p].tmpl).last_error = run[p].artifact.errors[2]

\* ------------------------------------------------------- stop() and start()
\* One template that is due, the scheduler started, stop() and start() called
\* at any moment.
InitStop ==
    InitWith([id \in {"a"} |-> StoredTemplate(Some(1), Some(0))],
             [fill |-> {"valid", "parse_error"}, io |-> {TRUE}])

NextStop ==
    \/ Tock
    \/ TickStart
    \/ \E k \in TickIds : TickList(k)
    \/ \E k \in TickIds : TickLoop(k)
    \/ RunStep
    \/ Stop
    \/ StartCall(1)
    \/ StartResume(1)
    \/ OpReturn(1)

\* Every pending step of a run is eventually taken: the event loop resumes a
\* coroutine whose awaited promise has settled.
SpecStop ==
    /\ InitStop
    /\ [][NextStop]_vars
    /\ \A p \in Procs : WF_vars(PipelineStep(p) \/ RunPersist(p))

\* A tick begins in this step: an idle invocation leaves idle.
TickBegins == \E k \in TickIds : tick[k].pc = "idle" /\ tick'[k].pc # "idle"
\* A start() call is awaiting init().
StartPending == \E o \in OpIds : ops[o].kind = "start" /\ ops[o].pc = "init"
\* The tick starts a run in this step.
ScheduledRunStarts == \E p \in Procs : ScheduledStart(p)

DefaultTemplateId == "default"
DefaultTemplate ==
    [enabled |-> TRUE, every_minutes |-> 10,
     retry_count |-> Some(DefaultRetryCount), repair_attempts |-> Some(1)]

\* init() is called: paths.ensure() and the first loadState() are awaited,
\* then templateStore.list().
InitOpCall(o) ==
    /\ ops[o].pc = "idle"
    /\ ops' = [ops EXCEPT ![o] = [IdleOp EXCEPT !.pc = "list", !.kind = "init"]]
    /\ UNCHANGED <<templates, active, template_runs, runningTemplates, tickInProgress,
                   tick, max_parallel_runs, display_profile, now, run, runStore, live, env,
                   schedulerTimer, files, docs>>

InitOpList(o) ==
    /\ ops[o].kind = "init"
    /\ ops[o].pc = "list"
    /\ \E ok \in env.io :
          ops' = [ops EXCEPT ![o] = IF ok THEN [ops[o] EXCEPT !.pc = "state",
                                                              !.listed = templates]
                                          ELSE OpThrew(ops[o])]
    /\ UNCHANGED <<templates, active, template_runs, runningTemplates, tickInProgress,
                   tick, max_parallel_runs, display_profile, now, run, runStore, live, env,
                   schedulerTimer, files, docs>>

\* `if (!templates.length)` decides on the list read at the start, and
\* seedDefaultTemplate starts with access() of the live file.
InitOpSeedOrReturn(op) ==
    IF DOMAIN op.listed = {} THEN [op EXCEPT !.pc = "access"]
    ELSE OpDone(op, TRUE, NULL)

\* loadState() has answered and a profile that is there is dropped, a
\* missing one set.
InitOpStateTogglesProfile(o) ==
    /\ ops[o].kind = "init"
    /\ ops[o].pc = "state"
    /\ IF display_profile = NULL
       THEN /\ display_profile' = ConfigProfile
            /\ ops' = [ops EXCEPT ![o].pc = "profile"]
       ELSE /\ display_profile' = NULL
            /\ ops' = [ops EXCEPT ![o] = InitOpSeedOrReturn(ops[o])]
    /\ UNCHANGED <<templates, active, template_runs, runningTemplates, tickInProgress,
                   tick, max_parallel_runs, now, run, runStore, live, env,
                   schedulerTimer, files, docs>>

\* loadState() has answered: a missing display_profile is set on the cached
\* state to the configured one and saveState awaited; otherwise the list
\* decides.
InitOpState(o) ==
    /\ ops[o].kind = "init"
    /\ ops[o].pc = "state"
    /\ IF display_profile = NULL
       THEN /\ display_profile' = ConfigProfile
            /\ ops' = [ops EXCEPT ![o].pc = "profile"]
       ELSE /\ UNCHANGED display_profile
            /\ ops' = [ops EXCEPT ![o] = InitOpSeedOrReturn(ops[o])]
    /\ UNCHANGED <<templates, active, template_runs, runningTemplates, tickInProgress,
                   tick, max_parallel_runs, now, run, runStore, live, env,
                   schedulerTimer, files, docs>>

\* saveState of the seeded profile answers or raises.
InitOpProfile(o) ==
    /\ ops[o].kind = "init"
    /\ ops[o].pc = "profile"
    /\ \E ok \in env.io :
          /\ ops' = [ops EXCEPT ![o] = IF ok THEN InitOpSeedOrReturn(ops[o])
                                             ELSE OpThrew(ops[o])]
          /\ files' = IF ok THEN SaveState(files, active, template_runs) ELSE files
    /\ UNCHANGED <<templates, active, template_runs, runningTemplates, tickInProgress,
                   tick, max_parallel_runs, display_profile, now, run, runStore, live, env,
                   schedulerTimer, docs>>

InitOpAccess(o) ==
    /\ ops[o].kind = "init"
    /\ ops[o].pc = "access"
    /\ ops' = [ops EXCEPT ![o] = IF env.live_readable
                                 THEN [ops[o] EXCEPT !.pc = "read"]
                                 ELSE OpDone(ops[o], TRUE, NULL)]
    /\ UNCHANGED <<templates, active, template_runs, runningTemplates, tickInProgress,
                   tick, max_parallel_runs, display_profile, now, run, runStore, live, env,
                   schedulerTimer, files, docs>>

InitOpRead(o) ==
    /\ ops[o].kind = "init"
    /\ ops[o].pc = "read"
    /\ \E ok \in env.io :
          ops' = [ops EXCEPT ![o] = IF ok THEN [ops[o] EXCEPT !.pc = "upsert"]
                                          ELSE OpThrew(ops[o])]
    /\ UNCHANGED <<templates, active, template_runs, runningTemplates, tickInProgress,
                   tick, max_parallel_runs, display_profile, now, run, runStore, live, env,
                   schedulerTimer, files, docs>>

InitOpUpsert(o) ==
    /\ ops[o].kind = "init"
    /\ ops[o].pc = "upsert"
    /\ \E ok \in env.io :
          IF ok THEN /\ templates' = Put(templates, DefaultTemplateId, DefaultTemplate)
                     /\ ops' = [ops EXCEPT ![o].pc = "relist"]
          ELSE /\ ops' = [ops EXCEPT ![o] = OpThrew(ops[o])]
               /\ UNCHANGED templates
    /\ UNCHANGED <<active, template_runs, runningTemplates, tickInProgress,
                   tick, max_parallel_runs, display_profile, now, run, runStore, live, env,
                   schedulerTimer, files, docs>>

\* The second list() has answered: the first id becomes active when the state
\* object has none.
InitOpRelist(o) ==
    /\ ops[o].kind = "init"
    /\ ops[o].pc = "relist"
    /\ \E ok \in env.io :
          IF ~ok
          THEN /\ ops' = [ops EXCEPT ![o] = OpThrew(ops[o])]
               /\ UNCHANGED active
          ELSE IF active = NULL /\ DOMAIN templates # {}
               THEN /\ active' = FirstRemaining(templates)
                    /\ ops' = [ops EXCEPT ![o].pc = "save"]
               ELSE /\ ops' = [ops EXCEPT ![o] = OpDone(ops[o], TRUE, NULL)]
                    /\ UNCHANGED active
    /\ UNCHANGED <<templates, template_runs, runningTemplates, tickInProgress,
                   tick, max_parallel_runs, display_profile, now, run, runStore, live, env,
                   schedulerTimer, files, docs>>

InitOpSave(o) ==
    /\ ops[o].kind = "init"
    /\ ops[o].pc = "save"
    /\ \E ok \in env.io :
          /\ ops' = [ops EXCEPT ![o] = IF ok THEN OpDone(ops[o], TRUE, NULL)
                                             ELSE OpThrew(ops[o])]
          /\ files' = IF ok THEN SaveState(files, active, template_runs) ELSE files
    /\ UNCHANGED <<templates, active, template_runs, runningTemplates, tickInProgress,
                   tick, max_parallel_runs, display_profile, now, run, runStore, live, env,
                   schedulerTimer, docs>>

\* One of the awaits of the init() call in slot o answers.
InitOpAwaits(o) ==
    \/ InitOpList(o) \/ InitOpState(o) \/ InitOpProfile(o) \/ InitOpAccess(o)
    \/ InitOpRead(o)
    \/ InitOpUpsert(o) \/ InitOpRelist(o) \/ InitOpSave(o)

InitOpStep(o) ==
    \/ InitOpAwaits(o)
    \/ OpReturn(o)

\* Before the scheduler is started: the store empty or holding "a", the
\* stored state with a display_profile or without, the configuration flag
\* auto_seed_template either way, the live dashboard file readable or not,
\* writes that may fail.
InitSeed ==
    \E store \in {NoListing, [id \in {"a"} |-> StoredTemplate(Some(1), Some(0))]} :
    \E seed, readable \in BOOLEAN : \E profile \in {NULL, StoredProfile} :
        /\ env = [fill |-> {"valid"}, io |-> BOOLEAN,
                  auto_seed_template |-> seed, live_readable |-> readable]
        /\ templates = store
        /\ active = FirstRemaining(store)
        /\ template_runs = [id \in {} |-> EmptyRunState]
        /\ runningTemplates = {}
        /\ tickInProgress = FALSE
        /\ tick = [k \in TickIds |-> IdleTick]
        /\ max_parallel_runs = 1
        /\ display_profile = profile
        /\ now = MsPerMinute
        /\ run = [p \in Procs |-> FreeRun]
        /\ runStore = {}
        /\ live = "bootstrap"
        /\ ops = [o \in OpIds |-> IdleOp]
        /\ schedulerTimer = FALSE
        /\ files = NoFiles
        /\ docs = NoDocs

NextSeed ==
    \/ \E o \in OpIds : InitOpCall(o)
    \/ \E o \in OpIds : InitOpStep(o)

SpecSeed == InitSeed /\ [][NextSeed]_vars

\* init stores a template in this step.
InitSeeds ==
    \E o \in OpIds : /\ ops[o].kind = "init"
                     /\ ops[o].pc = "upsert"
                     /\ ops'[o].pc = "relist"
\* An init that has seeded returns in this step.
SeededInitReturns ==
    \E o \in OpIds : /\ ops[o].kind = "init"
                     /\ ops[o].pc \in {"relist", "save"}
                     /\ ops'[o].pc = "done"

\* C27: init seeds only when the store is empty, auto_seed_template is true and
\* the live file is readable; after the seed the store holds that one template
\* and it is the active one.
C27_SeedOnlyWhenConfigured ==
    [][/\ InitSeeds => /\ DOMAIN templates \subseteq {DefaultTemplateId}
                       /\ env.auto_seed_template
                       /\ env.live_readable
       /\ SeededInitReturns => /\ DOMAIN templates' = {DefaultTemplateId}
                               /\ active' = DefaultTemplateId]_vars

\* --------------------------------------------------------- atomicWriteJson
\* The values written and the largest number of characters one write system
\* call of writeFile puts into the file.
MaxChunk == 3
WriteValues ==
    {JNull, JNum(0 - 12), JStr(<<"a", "\"">>), JArr(<<>>),
     JArr(<<JBool(TRUE), JStr(<<"\\", "\n">>)>>),
     JObj(<<Member(<<"k">>, JNum(7)), Member(<<"q">>, JArr(<<JObj(<<>>)>>))>>)}

\* atomicWriteJson(path, v) is called: ensureDir(targetDir) is awaited.  What
\* readers have seen is counted from the call.
AtomicWriteJson(v) ==
    /\ files.write.pc = "idle"
    /\ files' = [files EXCEPT !.write = [pc |-> "mkdir", v |-> v, text |-> <<>>,
                                         prev |-> files.path],
                              !.read = None]
    /\ UNCHANGED <<templates, active, template_runs, runningTemplates, tickInProgress,
                   tick, max_parallel_runs, display_profile, now, run, runStore, live, env,
                   ops, schedulerTimer, docs>>

WriteEnsureDir ==
    /\ files.write.pc = "mkdir"
    /\ \E ok \in env.io :
          files' = [files EXCEPT !.write.pc = IF ok THEN "mkdtemp" ELSE "threw"]
    /\ UNCHANGED <<templates, active, template_runs, runningTemplates, tickInProgress,
                   tick, max_parallel_runs, display_profile, now, run, runStore, live, env,
                   ops, schedulerTimer, docs>>

\* mkdtemp has answered: writeFile(tmpPath, text) opens the new file.
WriteMkdtemp ==
    /\ files.write.pc = "mkdtemp"
    /\ \E ok \in env.io :
          files' = IF ok
                   THEN [files EXCEPT !.write.pc = "write",
                                      !.write.text = Stringify(files.write.v, 0) \o <<"\n">>,
                                      !.tmp = Some(<<>>)]
                   ELSE [files EXCEPT !.write.pc = "threw"]
    /\ UNCHANGED <<templates, active, template_runs, runningTemplates, tickInProgress,
                   tick, max_parallel_runs, display_profile, now, run, runStore, live, env,
                   ops, schedulerTimer, docs>>

\* writeFile puts the next characters into the temporary file, or fails.
WriteFile ==
    /\ files.write.pc = "write"
    /\ Len(Get(files.tmp)) < Len(files.write.text)
    /\ \E ok \in env.io :
          IF ok
          THEN \E n \in 1..MaxChunk :
                  /\ Len(Get(files.tmp)) + n <= Len(files.write.text)
                  /\ files' = [files EXCEPT !.tmp =
                                  Some(SubSeq(files.write.text, 1, Len(Get(files.tmp)) + n))]
          ELSE files' = [files EXCEPT !.write.pc = "threw"]
    /\ UNCHANGED <<templates, active, template_runs, runningTemplates, tickInProgress,
                   tick, max_parallel_runs, display_profile, now, run, runStore, live, env,
                   ops, schedulerTimer, docs>>

\* writeFile has answered: rename(tmpPath, path) is awaited.
WriteFileDone ==
    /\ files.write.pc = "write"
    /\ Get(files.tmp) = files.write.text
    /\ files' = [files EXCEPT !.write.pc = "rename"]
    /\ UNCHANGED <<templates, active, template_runs, runningTemplates, tickInProgress,
                   tick, max_parallel_runs, display_profile, now, run, runStore, live, env,
                   ops, schedulerTimer, docs>>

WriteRenameInPlace ==
    /\ files.write.pc = "rename"
    /\ \E ok \in env.io : \E n \in 0..Len(files.write.text) :
          files' = IF ok
                   THEN [files EXCEPT !.write.pc = "rm", !.path = files.tmp, !.tmp = None]
                   ELSE [files EXCEPT !.write.pc = "threw",
                                      !.path = Some(SubSeq(files.write.text, 1, n))]
    /\ UNCHANGED <<templates, active, template_runs, runningTemplates, tickInProgress,
                   tick, max_parallel_runs, display_profile, now, run, runStore, live, env,
                   ops, schedulerTimer, docs>>

\* rename replaces the file at path in one step, or fails and leaves it.
WriteRename ==
    /\ files.write.pc = "rename"
    /\ \E ok \in env.io :
          files' = IF ok
                   THEN [files EXCEPT !.write.pc = "rm", !.path = files.tmp, !.tmp = None]
                   ELSE [files EXCEPT !.write.pc = "threw"]
    /\ UNCHANGED <<templates, active, template_runs, runningTemplates, tickInProgress,
                   tick, max_parallel_runs, display_profile, now, run, runStore, live, env,
                   ops, schedulerTimer, docs>>

\* rm(tmpBase) has answered: atomicWriteJson returns.
WriteRm ==
    /\ files.write.pc = "rm"
    /\ \E ok \in env.io :
          files' = [files EXCEPT !.write.pc = IF ok THEN "returned" ELSE "threw"]
    /\ UNCHANGED <<templates, active, template_runs, runningTemplates, tickInProgress,
                   tick, max_parallel_runs, display_profile, now, run, runStore, live, env,
                   ops, schedulerTimer, docs>>

\* The caller has the answer; a temporary file left by a failed call stays in
\* its own directory.
WriteAnswered ==
    /\ files.write.pc \in {"returned", "threw"}
    /\ files' = [files EXCEPT !.write = [IdleWrite EXCEPT !.prev = files.path],
                              !.tmp = None]
    /\ UNCHANGED <<templates, active, template_runs, runningTemplates, tickInProgress,
                   tick, max_parallel_runs, display_profile, now, run, runStore, live, env,
                   ops, schedulerTimer, docs>>

\* readJsonFile(path) by a reader, at any moment.
ReadJsonFile ==
    /\ files.read # Some(ReadJson(files.path))
    /\ files' = [files EXCEPT !.read = Some(ReadJson(files.path))]
    /\ UNCHANGED <<templates, active, template_runs, runningTemplates, tickInProgress,
                   tick, max_parallel_runs, display_profile, now, run, runStore, live, env,
                   ops, schedulerTimer, docs>>

InitWrite ==
    /\ env = [fill |-> {"valid"}, io |-> BOOLEAN]
    /\ templates = NoListing
    /\ active = NULL
    /\ template_runs = [id \in {} |-> EmptyRunState]
    /\ runningTemplates = {}
    /\ tickInProgress = FALSE
    /\ tick = [k \in TickIds |-> IdleTick]
    /\ max_parallel_runs = 1
    /\ display_profile = ConfigProfile
    /\ now = MsPerMinute
    /\ run = [p \in Procs |-> FreeRun]
    /\ runStore = {}
    /\ live = "bootstrap"
    /\ ops = [o \in OpIds |-> IdleOp]
    /\ schedulerTimer = FALSE
    /\ files = NoFiles
    /\ docs = NoDocs

NextWrite ==
    \/ \E v \in WriteValues : AtomicWriteJson(v)
    \/ WriteEnsureDir
    \/ WriteMkdtemp
    \/ WriteFile
    \/ WriteFileDone
    \/ WriteRename
    \/ WriteRm
    \/ WriteAnswered
    \/ ReadJsonFile

SpecWrite == InitWrite /\ [][NextWrite]_vars

\* C26: from the call of atomicWriteJson(path, v) to its answer, failed or
\* not, the file at path reads as the complete previous content or as v, and
\* so does what a reader has read in the meantime; once the call has returned
\* the file reads as v.
C26_AtomicForReaders ==
    /\ files.write.pc # "idle" =>
          /\ ReadJson(files.path) \in {ReadJson(files.write.prev), ReadsAs(files.write.v)}
          /\ files.read \subseteq {ReadJson(files.write.prev), ReadsAs(files.write.v)}
    /\ files.write.pc = "returned" => ReadJson(files.path) = ReadsAs(files.write.v)

\* A reader has read the previous content while the temporary file holds a
\* part of the text of a different value.
C26_Witness ==
    /\ files.write.pc = "write"
    /\ files.write.prev # None
    /\ ReadJson(files.write.prev) # ReadsAs(files.write.v)
    /\ Len(Get(files.tmp)) > 0
    /\ Len(Get(files.tmp)) < Len(files.write.text)
    /\ files.read = Some(ReadJson(files.write.prev))

\* ------------------------------------------------------------ json-pointer
\* s.replaceAll(<<a, b>>, c) for a pattern of two characters.
RECURSIVE ReplaceAll(_, _, _, _)
ReplaceAll(s, a, b, c) ==
    IF Len(s) < 2 THEN s
    ELSE IF s[1] = a /\ s[2] = b THEN <<c>> \o ReplaceAll(Drop(s, 2), a, b, c)
    ELSE <<Head(s)>> \o ReplaceAll(Tail(s), a, b, c)

decodeToken(token) == ReplaceAll(ReplaceAll(token, "~", "1", "/"), "~", "0", "~")

\* s.split('/'): acc is the piece being read.
RECURSIVE Split(_, _)
Split(s, acc) ==
    IF s = <<>> THEN <<acc>>
    ELSE IF Head(s) = "/" THEN <<acc>> \o Split(Tail(s), <<>>)
    ELSE Split(Tail(s), Append(acc, Head(s)))

MsgInvalidPointer == "invalid pointer"
MsgNotNumeric == "pointer token must be numeric for array"
MsgOutOfRange == "array index out of range for pointer"
MsgPathNotFound == "pointer path not found"

\* parsePointer: the tokens, or the error thrown.
parsePointer(pointer) ==
    IF pointer = <<>> \/ Head(pointer) # "/"
    THEN [ok |-> FALSE, tokens |-> <<>>, error |-> MsgInvalidPointer]
    ELSE IF pointer = <<"/">> THEN [ok |-> TRUE, tokens |-> <<(<<>>)>>, error |-> NULL]
    ELSE [ok |-> TRUE, error |-> NULL,
          tokens |-> [i \in 1..Len(Split(Tail(pointer), <<>>)) |->
                         decodeToken(Split(Tail(pointer), <<>>)[i])]]

isArrayIndex(token) == token # <<>> /\ \A i \in 1..Len(token) : IsDigit(token[i])
\* Number(token) of a token of digits.
IndexOf(token) == ParseDigits(token, 0).v.n

\* ------------------------------------------------------ documents in memory
\* A value is a primitive (a JSON scalar, undefined, or a function inherited
\* from Object.prototype) or a reference to an array or object of the heap;
\* the heap is the sequence of the arrays and objects allocated so far.
Ref(a) == [t |-> "ref", a |-> a]
JUndefined == [t |-> "undefined"]
JFunction == [t |-> "function"]
IsArray(heap, x) == x.t = "ref" /\ heap[x.a].t = "arr"
IsObject(heap, x) == x.t = "ref" /\ heap[x.a].t = "obj"

\* The property names every object inherits from Object.prototype, as far as
\* the pointers of the model name them.
ConstructorKey == <<"c", "o", "n", "s", "t", "r", "u", "c", "t", "o", "r">>
PrototypeKeys == {ConstructorKey}

HasOwn(node, key) == \E i \in 1..Len(node.members) : node.members[i].k = key
MemberIndex(node, key) == CHOOSE i \in 1..Len(node.members) : node.members[i].k = key
\* `key in record` and `record[key]`.
KeyIn(node, key) == HasOwn(node, key) \/ key \in PrototypeKeys
Lookup(node, key) ==
    IF HasOwn(node, key) THEN node.members[MemberIndex(node, key)].v ELSE JFunction

\* A JSON value built in memory: the heap after it and the value.
RECURSIVE Alloc(_, _)
RECURSIVE AllocItems(_, _, _)
RECURSIVE AllocMembers(_, _, _)
AllocItems(heap, items, acc) ==
    IF items = <<>> THEN [heap |-> heap, vs |-> acc]
    ELSE LET r == Alloc(heap, Head(items))
         IN  AllocItems(r.heap, Tail(items), Append(acc, r.v))
AllocMembers(heap, members, acc) ==
    IF members = <<>> THEN [heap |-> heap, vs |-> acc]
    ELSE LET r == Alloc(heap, Head(members).v)
         IN  AllocMembers(r.heap, Tail(members), Append(acc, Member(Head(members).k, r.v)))
Alloc(heap, v) ==
    IF v.t = "arr"
    THEN LET r == AllocItems(heap, v.items, <<>>)
         IN  [heap |-> Append(r.heap, [t |-> "arr", items |-> r.vs]),
              v |-> Ref(Len(r.heap) + 1)]
    ELSE IF v.t = "obj"
    THEN LET r == AllocMembers(heap, v.members, <<>>)
         IN  [heap |-> Append(r.heap, [t |-> "obj", members |-> r.vs]),
              v |-> Ref(Len(r.heap) + 1)]
    ELSE [heap |-> heap, v |-> v]

\* The JSON value a value of the heap stands for.
RECURSIVE TreeOf(_, _)
TreeOf(heap, x) ==
    IF IsArray(heap, x)
    THEN JArr([i \in 1..Len(heap[x.a].items) |-> TreeOf(heap, heap[x.a].items[i])])
    ELSE IF IsObject(heap, x)
    THEN JObj([i \in 1..Len(heap[x.a].members) |->
                  Member(heap[x.a].members[i].k, TreeOf(heap, heap[x.a].members[i].v))])
    ELSE x

\* The arrays and objects reachable from a value: its mutable parts.
RECURSIVE Reach(_, _)
Reach(heap, x) ==
    IF IsArray(heap, x)
    THEN {x.a} \cup UNION {Reach(heap, heap[x.a].items[i]) : i \in 1..Len(heap[x.a].items)}
    ELSE IF IsObject(heap, x)
    THEN {x.a} \cup UNION {Reach(heap, heap[x.a].members[i].v) :
                              i \in 1..Len(heap[x.a].members)}
    ELSE {}

\* deepClone of a value of the heap.
deepClone(heap, x) == Alloc(heap, DeepClone(TreeOf(heap, x)))

\* One step of the walk of readPointer and writePointer: the child of cursor
\* under token, or the error thrown.
Child(heap, cursor, token) ==
    IF IsArray(heap, cursor)
    THEN IF ~isArrayIndex(token) THEN [ok |-> FALSE, v |-> JUndefined, error |-> MsgNotNumeric]
         ELSE IF IndexOf(token) >= Len(heap[cursor.a].items)
              THEN [ok |-> FALSE, v |-> JUndefined, error |-> MsgOutOfRange]
         ELSE [ok |-> TRUE, v |-> heap[cursor.a].items[IndexOf(token) + 1], error |-> NULL]
    ELSE IF IsObject(heap, cursor) /\ KeyIn(heap[cursor.a], token)
    THEN [ok |-> TRUE, v |-> Lookup(heap[cursor.a], token), error |-> NULL]
    ELSE [ok |-> FALSE, v |-> JUndefined, error |-> MsgPathNotFound]

RECURSIVE Walk(_, _, _)
Walk(heap, cursor, tokens) ==
    IF tokens = <<>> THEN [ok |-> TRUE, v |-> cursor, error |-> NULL]
    ELSE IF Child(heap, cursor, Head(tokens)).ok
         THEN Walk(heap, Child(heap, cursor, Head(tokens)).v, Tail(tokens))
         ELSE Child(heap, cursor, Head(tokens))

readPointer(heap, root, pointer) ==
    IF ~parsePointer(pointer).ok
    THEN [ok |-> FALSE, v |-> JUndefined, error |-> parsePointer(pointer).error]
    ELSE Walk(heap, root, parsePointer(pointer).tokens)

\* writePointer: the heap after the assignment, or the error thrown.
writePointer(heap, root, pointer, value) ==
    LET parsed == parsePointer(pointer)
        tokens == parsed.tokens
        last == tokens[Len(tokens)]
        parent == Walk(heap, root, SubSeq(tokens, 1, Len(tokens) - 1))
        slot == Child(heap, parent.v, last)
    IN  IF ~parsed.ok THEN [ok |-> FALSE, heap |-> heap, error |-> parsed.error]
        ELSE IF ~parent.ok THEN [ok |-> FALSE, heap |-> heap, error |-> parent.error]
        ELSE IF ~slot.ok THEN [ok |-> FALSE, heap |-> heap, error |-> slot.error]
        ELSE IF IsArray(heap, parent.v)
        THEN [ok |-> TRUE, error |-> NULL,
              heap |-> [heap EXCEPT ![parent.v.a].items[IndexOf(last) + 1] = value]]
        ELSE IF HasOwn(heap[parent.v.a], last)
        THEN [ok |-> TRUE, error |-> NULL,
              heap |-> [heap EXCEPT ![parent.v.a].members[MemberIndex(heap[parent.v.a], last)].v
                                        = value]]
        ELSE [ok |-> TRUE, error |-> NULL,
              heap |-> [heap EXCEPT ![parent.v.a].members = Append(@, Member(last, value))]]

\* ------------------------------------------------------------------- merge
NoConstraints ==
    [max_len |-> None, min |-> None, max |-> None, min_items |-> None,
     max_items |-> None, enum |-> None]
FieldSpec(id, pointer, shape) ==
    [id |-> id, pointer |-> pointer, type |-> shape.type, required |-> shape.required,
     constraints |-> shape.constraints]

MsgMissingRequired == "missing required value for field"
MsgExpectsString == "expects string"
MsgMaxLen == "exceeds max_len"
MsgExpectsNumber == "expects number"
MsgBelowMin == "below min"
MsgAboveMax == "above max"
MsgExpectsBoolean == "expects boolean"
MsgExpectsArray == "expects array"
MsgMinItems == "requires at least"
MsgMaxItems == "allows at most"
MsgNotInEnum == "value not in enum"
MsgDuplicateId == "duplicate field id"
MsgDuplicatePointer == "duplicate field pointer"
MsgUnknownField == "unknown field id in fill response"

\* assertFieldValue: the message of the error thrown, or NULL.
assertFieldValue(field, heap, value) ==
    LET c == field.constraints
    IN  IF value \in {JUndefined, JNull}
        THEN IF field.required THEN MsgMissingRequired ELSE NULL
        ELSE IF field.type = "string" /\ value.t # "str" THEN MsgExpectsString
        ELSE IF /\ field.type = "string"
                /\ c.max_len # None /\ Get(c.max_len) # 0
                /\ Len(value.s) > Get(c.max_len) THEN MsgMaxLen
        ELSE IF field.type = "number" /\ value.t # "num" THEN MsgExpectsNumber
        ELSE IF field.type = "number" /\ c.min # None /\ value.n < Get(c.min)
             THEN MsgBelowMin
        ELSE IF field.type = "number" /\ c.max # None /\ value.n > Get(c.max)
             THEN MsgAboveMax
        ELSE IF field.type = "boolean" /\ value.t # "bool" THEN MsgExpectsBoolean
        ELSE IF field.type = "array" /\ ~IsArray(heap, value) THEN MsgExpectsArray
        ELSE IF /\ field.type = "array" /\ c.min_items # None
                /\ Len(heap[value.a].items) < Get(c.min_items) THEN MsgMinItems
        ELSE IF /\ field.type = "array" /\ c.max_items # None
                /\ Len(heap[value.a].items) > Get(c.max_items) THEN MsgMaxItems
        ELSE IF c.enum # None /\ value \notin Get(c.enum) THEN MsgNotInEnum
        ELSE NULL

\* validateFieldPointers: the message of the error thrown, or NULL.
RECURSIVE ValidateFields(_, _, _, _, _)
ValidateFields(heap, base, fields, seenIds, seenPointers) ==
    IF fields = <<>> THEN NULL
    ELSE IF Head(fields).id \in seenIds THEN MsgDuplicateId
    ELSE IF Head(fields).pointer \in seenPointers THEN MsgDuplicatePointer
    ELSE IF ~readPointer(heap, base, Head(fields).pointer).ok
         THEN readPointer(heap, base, Head(fields).pointer).error
    ELSE ValidateFields(heap, base, Tail(fields), seenIds \cup {Head(fields).id},
                        seenPointers \cup {Head(fields).pointer})
validateFieldPointers(heap, base, fields) == ValidateFields(heap, base, fields, {}, {})

\* values[id] of a values map.
ValueOf(values, id) == IF id \in DOMAIN values THEN values[id] ELSE JUndefined

\* The loop of mergeTemplateValues over the fields: the heap after it, the
\* number of values written and the error thrown, if any.
RECURSIVE MergeFields(_, _, _, _, _)
MergeFields(heap, next, fields, values, writes) ==
    IF fields = <<>> THEN [ok |-> TRUE, heap |-> heap, next |-> next, writes |-> writes,
                           error |-> NULL]
    ELSE LET field == Head(fields)
             value == ValueOf(values, field.id)
             written == writePointer(heap, next, field.pointer, value)
         IN  IF assertFieldValue(field, heap, value) # NULL
             THEN [ok |-> FALSE, heap |-> heap, next |-> next, writes |-> writes,
                   error |-> assertFieldValue(field, heap, value)]
             ELSE IF value \in {JUndefined, JNull}
             THEN MergeFields(heap, next, Tail(fields), values, writes)
             ELSE IF ~written.ok
             THEN [ok |-> FALSE, heap |-> heap, next |-> next, writes |-> writes,
                   error |-> written.error]
             ELSE MergeFields(written.heap, next, Tail(fields), values, writes + 1)

FieldIds(fields) == {fields[i].id : i \in 1..Len(fields)}

MergeUnknownLast(heap, base, fields, values) ==
    LET next == deepClone(heap, base)
        merged == MergeFields(next.heap, next.v, fields, values, 0)
    IN  IF merged.ok /\ ~(DOMAIN values \subseteq FieldIds(fields))
        THEN [merged EXCEPT !.ok = FALSE, !.error = MsgUnknownField]
        ELSE merged

mergeTemplateValues(heap, base, fields, values) ==
    LET next == deepClone(heap, base)
    IN  IF ~(DOMAIN values \subseteq FieldIds(fields))
        THEN [ok |-> FALSE, heap |-> next.heap, next |-> next.v, writes |-> 0,
              error |-> MsgUnknownField]
        ELSE MergeFields(next.heap, next.v, fields, values, 0)

collectFirstValues(heap, base, fields) ==
    [id \in FieldIds(fields) |-> readPointer(heap, base, fields[1].pointer).v]

\* collectCurrentValues: the value at each field's pointer, by field id; the
\* later of two fields of one id wins.
collectCurrentValues(heap, base, fields) ==
    [id \in FieldIds(fields) |->
        LET last == CHOOSE i \in 1..Len(fields) :
                       /\ fields[i].id = id
                       /\ \A j \in (i + 1)..Len(fields) : fields[j].id # id
        IN  readPointer(heap, base, fields[last].pointer).v]
\* It throws when a pointer does not resolve.
CollectThrows(heap, base, fields) ==
    \E i \in 1..Len(fields) : ~readPointer(heap, base, fields[i].pointer).ok

\* mockValue of the mock provider (fill-runner.ts): the current value when it
\* has the field's type, and a fresh string for a string field.
MockText == <<"u", "p">>
mockValue(heap, type, currentValue) ==
    IF type = "number" THEN (IF currentValue.t = "num" THEN currentValue ELSE JNum(0))
    ELSE IF type = "boolean"
         THEN (IF currentValue.t = "bool" THEN currentValue ELSE JBool(FALSE))
    ELSE IF type = "array" /\ IsArray(heap, currentValue) THEN currentValue
    ELSE IF type = "array" THEN JArr(<<>>)
    ELSE JStr(MockText)

\* ------------------------------------------- templates and values in memory
\* {"s": "old", "l": ["x", "y"], "o": {"k": null}, "n": 5, "~": true}
BaseDocument ==
    JObj(<<Member(<<"s">>, JStr(<<"o", "l", "d">>)),
           Member(<<"l">>, JArr(<<JStr(<<"x">>), JStr(<<"y">>)>>)),
           Member(<<"o">>, JObj(<<Member(<<"k">>, JNull)>>)),
           Member(<<"n">>, JNum(5)),
           Member(<<"~">>, JBool(TRUE))>>)

\* Pointers that resolve, that name one place twice, and that do not resolve.
MergePointers ==
    {<<"/", "s">>, <<"/", "l">>, <<"/", "l", "/", "0">>, <<"/", "o", "/", "k">>,
     <<"/", "n">>, <<"/">> \o ConstructorKey}
WidePointers ==
    MergePointers \cup
    {<<"/", "l", "/", "0", "0">>, <<"/", "l", "/", "2">>, <<"/", "l", "/", "x">>,
     <<"/", "m">>, <<"s">>, <<"/">>, <<"/", "~", "0">>, <<"/", "~">>, <<"/", "o", "/", "m">>}

StringShape == [type |-> "string", required |-> TRUE, constraints |-> NoConstraints]
ArrayShape ==
    [type |-> "array", required |-> TRUE,
     constraints |-> [NoConstraints EXCEPT !.min_items = Some(1), !.max_items = Some(2)]]
NestedShapes == {StringShape, ArrayShape}
Shapes ==
    {StringShape, ArrayShape,
     [type |-> "string", required |-> FALSE,
      constraints |-> [NoConstraints EXCEPT !.max_len = Some(2)]],
     [type |-> "string", required |-> TRUE,
      constraints |-> [NoConstraints EXCEPT !.enum = Some({JStr(<<"n", "e">>)})]],
     [type |-> "number", required |-> TRUE,
      constraints |-> [NoConstraints EXCEPT !.min = Some(0), !.max = Some(4)]],
     [type |-> "boolean", required |-> TRUE, constraints |-> NoConstraints]}

\* A list of fields of the ids given, in their order, with any pointer and
\* shape of the sets given.
FieldLists(idLists, pointers, shapes) ==
    UNION {{fields \in [1..Len(ids) -> {FieldSpec(id, p, sh) :
                                           id \in {ids[i] : i \in 1..Len(ids)},
                                           p \in pointers, sh \in shapes}] :
               \A i \in 1..Len(ids) : fields[i].id = ids[i]} : ids \in idLists}

NoMerged == [ok |-> FALSE, heap |-> <<>>, next |-> JNull, writes |-> 0, error |-> NULL]
NoValues == [id \in {} |-> JNull]

\* A template in memory: its base document built on an empty heap.
TemplateInMemory(fields) ==
    [heap |-> Alloc(<<>>, BaseDocument).heap, base |-> Alloc(<<>>, BaseDocument).v,
     before |-> BaseDocument, fields |-> fields, values |-> NoValues, source |-> NULL,
     pc |-> "template", error |-> NULL, merged |-> NoMerged]

InitDocs(fieldLists) ==
    /\ env = [fill |-> {"valid"}, io |-> {TRUE}]
    /\ templates = NoListing
    /\ active = NULL
    /\ template_runs = [id \in {} |-> EmptyRunState]
    /\ runningTemplates = {}
    /\ tickInProgress = FALSE
    /\ tick = [k \in TickIds |-> IdleTick]
    /\ max_parallel_runs = 1
    /\ display_profile = ConfigProfile
    /\ now = MsPerMinute
    /\ run = [p \in Procs |-> FreeRun]
    /\ runStore = {}
    /\ live = "bootstrap"
    /\ ops = [o \in OpIds |-> IdleOp]
    /\ schedulerTimer = FALSE
    /\ files = NoFiles
    /\ \E fields \in fieldLists : docs = TemplateInMemory(fields)

\* ---- validateTemplate and the store
MsgPublish == "dashboard validation failed"

\* validateTemplate: shape, then pointers, then publishability of the base.
\* The JSON schema of the shape check and the validator of the publisher are
\* outside: their verdicts are inputs.
ValidateTemplate(shapeOk, publishable) ==
    /\ docs.pc = "template"
    /\ docs' = [docs EXCEPT
          !.pc = "validated",
          !.error = IF ~shapeOk THEN MsgTemplateShape
                    ELSE IF validateFieldPointers(docs.heap, docs.base, docs.fields) # NULL
                    THEN validateFieldPointers(docs.heap, docs.base, docs.fields)
                    ELSE IF ~publishable THEN MsgPublish
                    ELSE NULL]
    /\ UNCHANGED <<templates, active, template_runs, runningTemplates, tickInProgress,
                   tick, max_parallel_runs, display_profile, now, run, runStore, live, env, ops,
                   schedulerTimer, files>>

\* No error: templateStore.upsert(template).
StoreTemplate ==
    /\ docs.pc = "validated"
    /\ docs.error = NULL
    /\ docs' = [docs EXCEPT !.pc = "stored"]
    /\ UNCHANGED <<templates, active, template_runs, runningTemplates, tickInProgress,
                   tick, max_parallel_runs, display_profile, now, run, runStore, live, env, ops,
                   schedulerTimer, files>>

\* Errors: the operation answers ok=false with them.
RejectTemplate ==
    /\ docs.pc = "validated"
    /\ docs.error # NULL
    /\ docs' = [docs EXCEPT !.pc = "rejected"]
    /\ UNCHANGED <<templates, active, template_runs, runningTemplates, tickInProgress,
                   tick, max_parallel_runs, display_profile, now, run, runStore, live, env, ops,
                   schedulerTimer, files>>

InitPointers ==
    InitDocs(FieldLists({<<>>, <<"f">>, <<"f", "g">>, <<"f", "f">>}, WidePointers,
                        {StringShape}))

NextPointers ==
    \/ \E shapeOk, publishable \in BOOLEAN : ValidateTemplate(shapeOk, publishable)
    \/ StoreTemplate
    \/ RejectTemplate

SpecPointers == InitPointers /\ [][NextPointers]_vars

\* ---- values and merge
\* The values a fill response gives a field: none, null, strings, a number, a
\* new array.
FillValues ==
    {JUndefined, JNull, JStr(<<"n", "e">>), JStr(<<"l", "o", "n", "g">>), JNum(2),
     JArr(<<JStr(<<"z">>)>>)}
\* The keys of a fill response: the field ids and one that no template has.
UnknownId == "nope"
ValueKeys == <<"f", "g", UnknownId>>

\* The values of a response built in memory, key by key.
RECURSIVE AllocValues(_, _, _, _)
AllocValues(heap, chosen, keys, acc) ==
    IF keys = <<>> THEN [heap |-> heap, values |-> acc]
    ELSE IF chosen[Head(keys)] = JUndefined
         THEN AllocValues(heap, chosen, Tail(keys), acc)
    ELSE LET r == Alloc(heap, chosen[Head(keys)])
         IN  AllocValues(r.heap, chosen, Tail(keys),
                         [k \in DOMAIN acc \cup {Head(keys)} |->
                             IF k = Head(keys) THEN r.v ELSE acc[k]])

\* A fill response parsed from the provider's output.
FillResponse(chosen) ==
    /\ docs.pc = "template"
    /\ LET built == AllocValues(docs.heap, chosen, ValueKeys, NoValues)
       IN  docs' = [docs EXCEPT !.pc = "values", !.source = "response",
                                !.heap = built.heap, !.values = built.values]
    /\ UNCHANGED <<templates, active, template_runs, runningTemplates, tickInProgress,
                   tick, max_parallel_runs, display_profile, now, run, runStore, live, env, ops,
                   schedulerTimer, files>>

\* collectCurrentValues(template).
CollectCurrentValues ==
    /\ docs.pc = "template"
    /\ docs' = IF CollectThrows(docs.heap, docs.base, docs.fields)
               THEN [docs EXCEPT !.pc = "threw", !.error = MsgPathNotFound]
               ELSE [docs EXCEPT !.pc = "values", !.source = "current",
                        !.values = collectCurrentValues(docs.heap, docs.base, docs.fields)]
    /\ UNCHANGED <<templates, active, template_runs, runningTemplates, tickInProgress,
                   tick, max_parallel_runs, display_profile, now, run, runStore, live, env, ops,
                   schedulerTimer, files>>

\* The response of the mock provider: mockValue of each field's current value.
MockFill ==
    /\ docs.pc = "template"
    /\ ~CollectThrows(docs.heap, docs.base, docs.fields)
    /\ LET current == collectCurrentValues(docs.heap, docs.base, docs.fields)
           typeOf == [id \in FieldIds(docs.fields) |->
                         (CHOOSE i \in 1..Len(docs.fields) :
                             /\ docs.fields[i].id = id
                             /\ \A j \in (i + 1)..Len(docs.fields) : docs.fields[j].id # id)]
           chosen == [k \in {ValueKeys[i] : i \in 1..Len(ValueKeys)} |->
                         IF k \in FieldIds(docs.fields)
                         THEN mockValue(docs.heap, docs.fields[typeOf[k]].type, current[k])
                         ELSE JUndefined]
           built == AllocValues(docs.heap, chosen, ValueKeys, NoValues)
       IN  docs' = [docs EXCEPT !.pc = "values", !.source = "mock",
                                !.heap = built.heap, !.values = built.values]
    /\ UNCHANGED <<templates, active, template_runs, runningTemplates, tickInProgress,
                   tick, max_parallel_runs, display_profile, now, run, runStore, live, env, ops,
                   schedulerTimer, files>>

\* mergeTemplateValues(template, values).
MergeTemplateValues ==
    /\ docs.pc = "values"
    /\ LET merged == mergeTemplateValues(docs.heap, docs.base, docs.fields, docs.values)
       IN  docs' = [docs EXCEPT !.pc = "merged", !.heap = merged.heap,
                                !.merged = [merged EXCEPT !.heap = <<>>]]
    /\ UNCHANGED <<templates, active, template_runs, runningTemplates, tickInProgress,
                   tick, max_parallel_runs, display_profile, now, run, runStore, live, env, ops,
                   schedulerTimer, files>>

\* Templates of no field, of one field of any pointer and shape, and of two
\* fields that may lie one inside the other.
NestedPointers == {<<"/", "s">>, <<"/", "l">>, <<"/", "l", "/", "0">>}
InitMerge ==
    InitDocs(FieldLists({<<>>, <<"f">>}, MergePointers, Shapes)
                 \cup FieldLists({<<"f", "g">>}, NestedPointers, NestedShapes))

NextMerge ==
    \/ \E chosen \in [{ValueKeys[i] : i \in 1..Len(ValueKeys)} -> FillValues] :
          /\ chosen[UnknownId] \in {JUndefined, JNull}
          /\ FillResponse(chosen)
    \/ CollectCurrentValues
    \/ MockFill
    \/ MergeTemplateValues

SpecMerge == InitMerge /\ [][NextMerge]_vars

\* ---- C22
\* RFC 6901 resolution of the tokens of a pointer in a JSON value: every token
\* names a key the object has or an index the array has.
RECURSIVE Resolves(_, _)
Resolves(v, tokens) ==
    \/ tokens = <<>>
    \/ /\ tokens # <<>>
       /\ v.t = "arr"
       /\ isArrayIndex(Head(tokens))
       /\ IndexOf(Head(tokens)) < Len(v.items)
       /\ Resolves(v.items[IndexOf(Head(tokens)) + 1], Tail(tokens))
    \/ /\ tokens # <<>>
       /\ v.t = "obj"
       /\ \E i \in 1..Len(v.members) :
             v.members[i].k = Head(tokens) /\ Resolves(v.members[i].v, Tail(tokens))

UniqueIds(fields) ==
    \A i, j \in 1..Len(fields) : fields[i].id = fields[j].id => i = j
UniquePointers(fields) ==
    \A i, j \in 1..Len(fields) : fields[i].pointer = fields[j].pointer => i = j
PointersResolve(doc, fields) ==
    \A i \in 1..Len(fields) :
        /\ parsePointer(fields[i].pointer).ok
        /\ Resolves(doc, parsePointer(fields[i].pointer).tokens)

\* C22: a stored template has unique field ids, unique field pointers and
\* pointers that all resolve in its base document; a template that is
\* rejected is answered with an error.
C22_StoredTemplatesResolve ==
    /\ docs.pc = "stored" => /\ UniqueIds(docs.fields)
                             /\ UniquePointers(docs.fields)
                             /\ PointersResolve(docs.before, docs.fields)
    /\ docs.pc = "rejected" => docs.error # NULL

\* ---- C23, C24, C25
\* C23: after merge, returned or failed, the base document is deep-equal to
\* what it was, and a returned document shares no array or object with it.
C23_MergeLeavesBase ==
    docs.pc = "merged" =>
        /\ TreeOf(docs.heap, docs.base) = docs.before
        /\ docs.merged.ok =>
              Reach(docs.heap, docs.merged.next) \cap Reach(docs.heap, docs.base) = {}

\* C24: a values map with a key that is no field id makes merge fail with the
\* unknown-field-id error, with no value written into the clone, whatever the
\* other keys hold.
C24_UnknownKeyRejectedFirst ==
    (docs.pc = "merged" /\ ~(DOMAIN docs.values \subseteq FieldIds(docs.fields))) =>
        /\ ~docs.merged.ok
        /\ docs.merged.error = MsgUnknownField
        /\ docs.merged.writes = 0
        /\ TreeOf(docs.heap, docs.merged.next) = docs.before

\* A response with the unknown key and a value for each of two fields has
\* been merged.
C24_Witness ==
    /\ docs.pc = "merged"
    /\ docs.source = "response"
    /\ Len(docs.fields) = 2
    /\ DOMAIN docs.values = {"f", "g", UnknownId}
    /\ \A i \in 1..2 :
          assertFieldValue(docs.fields[i], docs.heap, docs.values[docs.fields[i].id]) = NULL

\* The template passes validateFieldPointers and its current values have been
\* merged into it.
RoundTrip ==
    /\ docs.pc = "merged"
    /\ docs.source = "current"
    /\ validateFieldPointers(docs.heap, docs.base, docs.fields) = NULL
\* Every current value passes the check merge makes of it for its field.
CurrentValuesAccepted ==
    \A i \in 1..Len(docs.fields) :
        assertFieldValue(docs.fields[i], docs.heap,
                         ValueOf(docs.values, docs.fields[i].id)) = NULL

\* C25 as stated: for every template that passes field-pointer validation the
\* merge of its current values succeeds and equals a deep clone of the base.
C25_RoundTripIsClone ==
    RoundTrip => /\ docs.merged.ok
                 /\ TreeOf(docs.heap, docs.merged.next) = DeepClone(docs.before)

\* C25 amended: the same for every such template whose current values pass
\* the type and constraint check of their fields.
C25_RoundTripOfAcceptedValues ==
    (RoundTrip /\ CurrentValuesAccepted) =>
        /\ docs.merged.ok
        /\ TreeOf(docs.heap, docs.merged.next) = DeepClone(docs.before)

\* The current values of two fields, one inside the other, have been merged.
C25_Witness ==
    /\ RoundTrip
    /\ CurrentValuesAccepted
    /\ Len(docs.fields) = 2
    /\ docs.fields[1].pointer = <<"/", "l">>
    /\ docs.fields[2].pointer = <<"/", "l", "/", "0">>
    /\ docs.merged.writes = 2

\* ------------------------------------------ the first state update of a run
\* Two templates, state.json followed; the provider answers and file
\* operations can fail.
InitAttempt ==
    InitStateFiles(TwoTemplates, [fill |-> {"valid"}, io |-> BOOLEAN],
                   [id \in {} |-> EmptyRunState],
                   StateFile("a", [id \in {} |-> EmptyRunState]))

\* Ticks and manual runs, with no clock: every template stays due.
NextAttempt ==
    \/ \E id \in TemplateIds : RunNow(id)
    \/ TickStart
    \/ \E k \in TickIds : TickList(k)
    \/ \E k \in TickIds : TickLoop(k)
    \/ RunStep

SpecAttempt == InitAttempt /\ [][NextAttempt]_vars

\* The run in slot p has called the fill runner at least once, or is calling
\* it for the first time.
FillReached(p) == InPipeline(p) /\ run[p].pc \notin {"load", "save0"}

\* What state.json holds as last_attempt_at of a template.
AttemptOnDisk(id) ==
    UNION {RunStateOf(d.template_runs, id).last_attempt_at : d \in files.state}

ArtifactPending(p) == run[p].pc = "persist" /\ ~Rejected(p)

\* C32 as stated: while the artifact of a finished run has not been written,
\* the run's template id is still in the in-flight set.
C32_ArtifactBeforeRelease ==
    \A p \in Procs : ArtifactPending(p) => run[p].tmpl \in runningTemplates

\* No tickScheduler invocation is between setting and clearing the lock.
NoTickExecuting == \A k \in TickIds : ~TickHolds(k)

\* The timer invokes tickScheduler and the invocation takes the lock.
TickEnters == TickStart /\ tickInProgress' /\ \E k \in TickIds : tick'[k].pc = "list"

\* C33: the step in which a tick ends by an error clears tickInProgress;
\* whenever no tick is executing the flag is clear, and a tickScheduler
\* invocation made then takes the lock instead of returning at once.
C33_RaisedTickClearsLock ==
    /\ [][\A k \in TickIds :
             (TickHolds(k) /\ tick'[k].pc = "raised") => ~tickInProgress']_vars
    /\ [](NoTickExecuting => (~tickInProgress /\ ENABLED TickEnters))

\* C33 witness: after a tick that ended by an error, a later tick has taken
\* the lock.
C33_Witness ==
    \E k, j \in TickIds :
        /\ tick[k].pc = "raised"
        /\ tick[j].pc = "list"
        /\ tickInProgress

\* --------------------------------------------------- the tick's capacity gate
\* The two templates, both due, with max_parallel_runs 1 or 2.
InitParallel ==
    /\ env = [fill |-> {"valid", "parse_error"}, io |-> {TRUE}]
    /\ templates = TwoTemplates
    /\ active = "a"
    /\ template_runs = [id \in {} |-> EmptyRunState]
    /\ runningTemplates = {}
    /\ tickInProgress = FALSE
    /\ tick = [k \in TickIds |-> IdleTick]
    /\ max_parallel_runs \in {1, 2}
    /\ display_profile = ConfigProfile
    /\ now = MsPerMinute
    /\ run = [p \in Procs |-> FreeRun]
    /\ runStore = {}
    /\ live = "bootstrap"
    /\ ops = [o \in OpIds |-> IdleOp]
    /\ schedulerTimer = TRUE
    /\ files = NoFiles
    /\ docs = NoDocs

SpecParallel == InitParallel /\ [][Next]_vars

\* The slots that take a run started by the tick in this step.
StartedSlots == {p \in Procs : ScheduledStart(p)}

\* C34: in a step in which a tick starts runs, the ids it starts were not in
\* flight and are in the in-flight set when the step ends, one per run; the
\* in-flight set, manual runs included, then holds at most max_parallel_runs
\* ids, so each start found fewer than max_parallel_runs ids, those of the
\* runs started before it in the same tick included; and the tick ends in
\* that step, with the lock cleared, while every run it started is at its
\* first await.
C34_TickStartsBelowCapacity ==
    [][StartedSlots # {} =>
          /\ \A p \in StartedSlots :
                /\ run'[p].tmpl \notin runningTemplates
                /\ run'[p].tmpl \in runningTemplates'
                /\ run'[p].pc = "load"
          /\ \A p, q \in StartedSlots : run'[p].tmpl = run'[q].tmpl => p = q
          /\ runningTemplates' = runningTemplates \cup {run'[p].tmpl : p \in StartedSlots}
          /\ Cardinality(runningTemplates') <= max_parallel_runs
          /\ \E k \in TickIds : tick[k].pc = "state" /\ tick'[k].pc = "idle"
          /\ ~tickInProgress'
      ]_vars

\* C34 witness: with max_parallel_runs = 2 one tick has started the runs of
\* both templates and has ended, while both runs are at their first await.
C34_Witness ==
    /\ max_parallel_runs = 2
    /\ NoTickExecuting
    /\ ~tickInProgress
    /\ runningTemplates = TemplateIds
    /\ \A id \in TemplateIds :
          \E p \in Procs : /\ run[p].pc = "load"
                           /\ run[p].trigger = "schedule"
                           /\ run[p].tmpl = id

\* ------------------------------------------------------------- init() twice
\* init() is called, and when it has answered it is called again, and again:
\* the first call keeps slot 1, the later ones use slot 2 one after the other.
NextInitTwice ==
    \/ InitOpCall(1)
    \/ InitOpAwaits(1)
    \/ /\ ops[1].pc \in {"done", "threw"}
       /\ InitOpCall(2)
    \/ InitOpStep(2)

SpecInitTwice == InitSeed /\ [][NextInitTwice]_vars

\* The first init() call has completed.
FirstInitCompleted == ops[1].kind = "init" /\ ops[1].pc = "done" /\ ops[1].ok

\* C35: once a first init() call has completed, no step of a later init()
\* call changes the template store, active_template_id, display_profile or
\* template_runs.
C35_InitIdempotent ==
    [][FirstInitCompleted =>
          /\ templates' = templates
          /\ active' = active
          /\ display_profile' = display_profile
          /\ template_runs' = template_runs
      ]_vars

\* C35 witness: the first init() has seeded the display profile and the
\* default template and made it the active one, and a second init() has
\* completed.
C35_Witness ==
    /\ FirstInitCompleted
    /\ ops[2].kind = "init" /\ ops[2].pc = "done" /\ ops[2].ok
    /\ DOMAIN templates = {DefaultTemplateId}
    /\ active = DefaultTemplateId
    /\ display_profile = ConfigProfile

\* ------------------------------------- templateActivate and templateDelete
\* Calls of templateActivate and templateDelete arrive at any moment and
\* interleave at their awaits; no file operation fails.
NextRace ==
    \/ \E o \in OpIds : \E id \in TemplateIds : ActivateCall(o, id)
    \/ \E o \in OpIds : \E id \in TemplateIds : TemplateDelete(o, id)
    \/ \E o \in OpIds : ActivateGet(o) \/ ActivateState(o) \/ ActivateSave(o)
    \/ \E o \in OpIds : DeleteGet(o) \/ DeleteRemove(o) \/ DeleteState(o)
    \/ \E o \in OpIds : DeleteList(o) \/ DeleteSave(o)
    \/ \E o \in OpIds : OpReturn(o)

SpecRace == Init /\ [][NextRace]_vars

\* Every call that was made has answered.
NoCallPending == \A o \in OpIds : ops[o].pc \in {"idle", "done", "threw"}

\* C36 as stated: when every call has answered, active_template_id is null or
\* the id of a stored template; after a templateDelete of an id that has
\* answered ok, that id, no longer stored, is not the active one.
C36_ActiveStoredUnderRaces ==
    NoCallPending =>
        /\ active = NULL \/ active \in DOMAIN templates
        /\ \A o \in OpIds :
              (ops[o].kind = "delete" /\ ops[o].ok /\ ops[o].id \notin DOMAIN templates)
                  => active # ops[o].id

\* ------------------------------------------------------------------ C37
\* Runs started by runNow while templateDelete, templateCopy and
\* templateActivate calls are in progress: every await of a run and of a
\* call is a step of its own.  The provider answers valid values and no file
\* operation fails, so every run goes the way of a success.
InitConcurrent == InitWith(TwoTemplates, [fill |-> {"valid"}, io |-> {TRUE}])

NextConcurrent ==
    \/ \E id \in TemplateIds : RunNow(id)
    \/ \E id \in TemplateIds : TemplateDelete(1, id)
    \/ \E source \in TemplateIds : \E activate \in BOOLEAN :
          TemplateCopy(1, source, "c", activate)
    \/ \E id \in TemplateIds : ActivateCall(1, id)
    \/ DeleteGet(1) \/ DeleteRemove(1) \/ DeleteState(1) \/ DeleteList(1)
    \/ DeleteSave(1)
    \/ CopyGetSource(1) \/ CopyGetNew(1) \/ CopyValidate(1) \/ CopyUpsert(1)
    \/ CopyState(1) \/ CopySave(1)
    \/ ActivateGet(1) \/ ActivateState(1) \/ ActivateSave(1)
    \/ OpReturn(1)
    \/ \E p \in Procs : RunLoad(p)
    \/ \E p \in Procs : RunSave0(p)
    \/ \E p \in Procs : RunFill(p)
    \/ \E p \in Procs : RunValidate(p)
    \/ \E p \in Procs : RunReload(p)
    \/ \E p \in Procs : RunPublish(p)
    \/ \E p \in Procs : RunSave1(p)
    \/ \E p \in Procs : RunPersist(p)
    \/ \E p \in Procs : RunReturn(p)

SpecConcurrent == InitConcurrent /\ [][NextConcurrent]_vars

\* The step in which the publish of slot p answers: the writer has replaced
\* the live dashboard file by the run's output.
PublishReplaces(p) ==
    /\ run[p].pc = "publish"
    /\ run'[p].published
    /\ live' = run[p].tmpl

\* C37 as stated: in the step in which a publish replaces the live file the
\* publishing run's template id is active_template_id.
C37_Original ==
    [][\A p \in Procs : PublishReplaces(p) => active = run[p].tmpl]_vars

\* C37: publish is called only in a step in which the state re-load finds
\* the run's template id in active_template_id, and the live dashboard file is
\* replaced only by the publish of a run that passed this test; the active
\* template may have been switched by the time the publish answers.
C37_PublishCalledForActive ==
    [][/\ \A p \in Procs :
             (run[p].pc # "publish" /\ run'[p].pc = "publish") =>
                 /\ run[p].pc = "reload"
                 /\ active = run[p].tmpl
                 /\ active' = active
       /\ live' # live => \E p \in Procs : PublishReplaces(p)
      ]_vars

\* C37 witness: a run of "a" has replaced the live file after the active
\* template was switched to another one during its publish.
C37_Witness ==
    \E p \in Procs :
        /\ run[p].pc = "save1"
        /\ run[p].published
        /\ run[p].tmpl = "a"
        /\ live = "a"
        /\ active \notin {NULL, "a"}

\* ------------------------------------------------------------------ C38
\* The invocation in slot p has returned an artifact of executeTemplateRun.
HasArtifact(p) == run[p].pc \in {"persist", "done", "writeFailed"}

\* C38 as stated: every artifact with status failed has published = false.
C38_Original ==
    /\ \A p \in Procs :
          (HasArtifact(p) /\ run[p].artifact.status = "failed")
              => ~run[p].artifact.published
    /\ \A w \in runStore : w.artifact.status = "failed" => ~w.artifact.published

\* C38: published is set only by the step in which the run's publish
\* replaces the live file and is not reset afterwards; the artifact carries
\* it as it is, whatever the status.  A run that has published goes on to a
\* failure only when the state save after the publish raises, so an artifact
\* with status failed and published = true is that of a run whose output is
\* in the live file and whose final state save failed.
C38_PublishedFlagIsFaithful ==
    /\ [][\A p \in Procs :
             /\ (~run[p].published /\ run'[p].published) => PublishReplaces(p)
             /\ (run[p].published /\ InPipeline(p) /\ ~HasArtifact(p)')
                    => run'[p].published \/ run'[p].pc = "threw"
             /\ (InPipeline(p) /\ HasArtifact(p)')
                    => run'[p].artifact.published = run[p].published
             /\ (run[p].pc = "save1" /\ run[p].published /\ run'[p] # run[p]
                     /\ ~HasArtifact(p)')
                    => /\ files' = files
                       /\ FailsWith(p, MsgIo)
         ]_vars
    /\ [](\A p \in Procs :
             (HasArtifact(p) /\ run[p].artifact.published) =>
                 /\ live = run[p].tmpl
                 /\ run[p].artifact.status = "failed" => run[p].artifact.errors # <<>>)

\* C38 witness: a run has ended with a failed artifact that has published
\* set, and the live file holds its output.
C38_Witness ==
    \E p \in Procs :
        /\ run[p].pc = "done"
        /\ run[p].artifact.status = "failed"
        /\ run[p].artifact.published
        /\ live = run[p].tmpl

\* ------------------------------------------------------------------ C39
\* templateDelete of id has answered ok in slot o and the template is gone.
DeleteSucceeded(o, id) ==
    /\ ops[o].pc = "done"
    /\ ops[o].kind = "delete"
    /\ ops[o].id = id
    /\ ops[o].ok
    /\ id \notin DOMAIN templates

\* C39 as stated: once templateDelete(T) has answered ok and no run of T is
\* inside the pipeline any more, template_runs holds no entry for T.
C39_DeletedRunStateStaysDeleted ==
    \A o \in OpIds : \A id \in TemplateIds :
        (DeleteSucceeded(o, id) /\ \A p \in Procs : InPipeline(p) => run[p].tmpl # id)
            => id \notin DOMAIN template_runs

\* ------------------------------------------------------------------ C40
\* C40: the artifact of a run that went through the pipeline holds one
\* message per failed attempt: as many as attempt_count, which is
\* retry_count + 1, when the run failed, and attempt_count - 1 when it
\* succeeded; a step that starts a repair iteration leaves errors as it is.
C40_OneErrorPerFailedAttempt ==
    /\ [](\A p \in Procs :
             (HasArtifact(p) /\ ~Rejected(p)) =>
                 LET a == run[p].artifact
                 IN /\ a.status = "failed" =>
                          /\ Len(a.errors) = a.attempt_count
                          /\ a.attempt_count = RetryCountOf(templates[run[p].tmpl]) + 1
                    /\ a.status = "success" => Len(a.errors) = a.attempt_count - 1)
    /\ [][\A p \in Procs :
             (InPipeline(p) /\ InPipeline(p)' /\ run'[p].repair = run[p].repair + 1)
                 => /\ run'[p].errors = run[p].errors
                    /\ run'[p].attemptCount = run[p].attemptCount
                    /\ run'[p].hint # NULL
         ]_vars

\* C40 witness: one run has ended in failure with two attempts and two
\* messages, another in success at its second attempt with one message.
C40_Witness ==
    \E p, q \in Procs :
        /\ run[p].pc = "done"
        /\ run[p].artifact.status = "failed"
        /\ run[p].artifact.attempt_count = 2
        /\ Len(run[p].artifact.errors) = 2
        /\ run[q].pc = "done"
        /\ run[q].artifact.status = "success"
        /\ run[q].artifact.attempt_count = 2
        /\ Len(run[q].artifact.errors) = 1

====
